---- MODULE Spec2Model ----
(***************************************************************************)
(* Model of the widget code generator (generator/widget_generator.py and   *)
(* generator/property_handlers.py).                                        *)
(*                                                                         *)
(* Representation.  A Python string is modelled as the sequence of its     *)
(* lexemes: every punctuation or white-space character is a lexeme of its  *)
(* own, and a maximal run of letters and digits is one lexeme, so          *)
(* "Text('Hi')" is <<"Text", "(", "'", "Hi", "'", ")">>.  A Python value   *)
(* (JSON data) is a record [k, s, m]: k is the Python type, s the lexemes  *)
(* of a scalar, m the (key, value) pairs of a dict in insertion order or   *)
(* the items of a list (each paired with the empty key).                   *)
(* A function that may raise returns a record [x, t, v]: x is TRUE when an *)
(* exception leaves the function, t is the returned text, v the set of     *)
(* widget type names that were fetched from the database (and stored in    *)
(* widget_cache) while the function ran.                                   *)
(* The APK builds (generator/apk_builder.py, generator/admin.py) are       *)
(* modelled by the frames of build_apk and by apk_builds, the rows of the   *)
(* APKBuild table in the order of their creation.                          *)
(***************************************************************************)
EXTENDS Integers, Sequences, FiniteSets, TLC

VARIABLES widget_cache, calls, op, arg, ret, apk_builds

vars == <<widget_cache, calls, op, arg, ret, apk_builds>>

-----------------------------------------------------------------------------
(* Lexeme strings *)

E == <<>>
SQ == "'"
DQ == "\""
NL == "\n"
SP == " "

\* the concatenation of a sequence of strings
RECURSIVE Concat(_)
Concat(parts) ==
  IF Len(parts) = 0 THEN <<>>
  ELSE IF Len(parts) = 1 THEN parts[1]
  ELSE LET h == Len(parts) \div 2
       IN Concat(SubSeq(parts, 1, h)) \o Concat(SubSeq(parts, h + 1, Len(parts)))

\* sep.join(parts)
Join(parts, sep) ==
  Concat([i \in 1..(2 * Len(parts) - 1) |-> IF i % 2 = 1 THEN parts[(i + 1) \div 2] ELSE sep])

StartsWith(s, p) == Len(s) >= Len(p) /\ SubSeq(s, 1, Len(p)) = p

EndsWith(s, p) == Len(s) >= Len(p) /\ SubSeq(s, Len(s) - Len(p) + 1, Len(s)) = p

In(c, s) == \E i \in 1..Len(s) : s[i] = c

\* s.replace(c, r) for a one-lexeme c
Replace(s, c, r) == Concat([i \in 1..Len(s) |-> IF s[i] = c THEN r ELSE <<s[i]>>])

\* re.sub: scan left to right; len[i] > 0 is the length of the match that starts at
\* lexeme i and repl[i] its replacement; matches do not overlap
RECURSIVE re_sub(_, _, _, _)
re_sub(s, len, repl, i) ==
  LET starts == {j \in i..Len(s) : len[j] > 0} IN
  IF starts = {} THEN SubSeq(s, i, Len(s))
  ELSE LET j == CHOOSE j \in starts : \A l \in starts : j <= l
       IN SubSeq(s, i, j - 1) \o repl[j] \o re_sub(s, len, repl, j + len[j])

Sub(s, len(_, _), repl(_, _)) ==
  re_sub(s, [i \in 1..Len(s) |-> len(s, i)], [i \in 1..Len(s) |-> repl(s, i)], 1)

At(s, i) == IF i >= 1 /\ i <= Len(s) THEN s[i] ELSE ""

Contains(s, p) == \E i \in 1..(Len(s) - Len(p) + 1) : SubSeq(s, i, i + Len(p) - 1) = p

-----------------------------------------------------------------------------
(* Python values *)

None == [k |-> "none", s |-> E, m |-> <<>>]
Str(s) == [k |-> "str", s |-> s, m |-> <<>>]
W(w) == Str(<<w>>)
IntV(w) == [k |-> "int", s |-> <<w>>, m |-> <<>>]
Float(s) == [k |-> "float", s |-> s, m |-> <<>>]
True == [k |-> "bool", s |-> <<"True">>, m |-> <<>>]
False == [k |-> "bool", s |-> <<"False">>, m |-> <<>>]
Dict(m) == [k |-> "dict", s |-> E, m |-> m]
RECURSIVE ListItems(_)
ListItems(items) ==
  IF items = <<>> THEN <<>> ELSE << <<E, items[1]>> >> \o ListItems(Tail(items))
List(items) == [k |-> "list", s |-> E, m |-> ListItems(items)]

IsStr(v) == v.k = "str"
IsDict(v) == v.k = "dict"
IsList(v) == v.k = "list"
IsBool(v) == v.k = "bool"
\* isinstance(v, int): bool is a subclass of int
IsInt(v) == v.k \in {"int", "bool"}
IsNumber(v) == v.k \in {"int", "bool", "float"}

Has(d, key) == \E i \in 1..Len(d.m) : d.m[i][1] = key
Get(d, key, default) ==
  IF Has(d, key) THEN d.m[CHOOSE i \in 1..Len(d.m) : d.m[i][1] = key][2] ELSE default
Set(m, key, val) ==
  IF \E i \in 1..Len(m) : m[i][1] = key
  THEN [i \in 1..Len(m) |-> IF m[i][1] = key THEN <<key, val>> ELSE m[i]]
  ELSE Append(m, <<key, val>>)

\* Python truth value
Truthy(v) ==
  CASE v.k = "none" -> FALSE
    [] v.k = "str" -> v.s # E
    [] v.k = "bool" -> v = True
    [] v.k = "int" -> v.s # <<"0">>
    [] v.k = "float" -> v.s # <<"0", ".", "0">>
    [] OTHER -> v.m # <<>>

\* repr() of a string: single quotes unless the text holds one and no double quote
ReprStr(s) ==
  IF In(SQ, s) /\ ~In(DQ, s) THEN <<DQ>> \o s \o <<DQ>> ELSE <<SQ>> \o s \o <<SQ>>

RECURSIVE Repr(_), ReprItems(_, _)
Repr(v) ==
  CASE v.k = "none" -> <<"None">>
    [] v.k = "str" -> ReprStr(v.s)
    [] v.k = "dict" -> <<"{">> \o ReprItems(v.m, TRUE) \o <<"}">>
    [] v.k = "list" -> <<"[">> \o ReprItems(v.m, FALSE) \o <<"]">>
    [] OTHER -> v.s
ReprItems(m, keyed) ==
  IF m = <<>> THEN <<>>
  ELSE (IF keyed THEN ReprStr(m[1][1]) \o <<":", SP>> ELSE <<>>) \o Repr(m[1][2])
       \o (IF Len(m) > 1 THEN <<",", SP>> ELSE <<>>) \o ReprItems(Tail(m), keyed)

\* str(v), also what an f-string "{v}" inserts
PyStr(v) == IF v.k = "str" THEN v.s ELSE Repr(v)

-----------------------------------------------------------------------------
(* html.unescape and _decode_html_deeply *)

\* character references of html.unescape over the model's alphabet
NamedRef == ("amp" :> "&") @@ ("lt" :> "<") @@ ("gt" :> ">") @@ ("quot" :> DQ)
NamedRefSemi == NamedRef @@ ("apos" :> SQ)
NumericRef == ("x27" :> SQ) @@ ("39" :> SQ)

\* the length of the character reference that starts at lexeme i (0 when none):
\* &#x27; and &#39; with or without the semicolon, &name; and the legacy names
\* that need no semicolon
charref(s, i) ==
  IF s[i] # "&" THEN 0
  ELSE IF At(s, i + 1) = "#" /\ At(s, i + 2) \in DOMAIN NumericRef
    THEN (IF At(s, i + 3) = ";" THEN 4 ELSE 3)
  ELSE IF At(s, i + 2) = ";" /\ At(s, i + 1) \in DOMAIN NamedRefSemi THEN 3
  ELSE IF At(s, i + 1) \in DOMAIN NamedRef THEN 2
  ELSE 0
replace_charref(s, i) ==
  IF At(s, i + 1) = "#" THEN <<NumericRef[At(s, i + 2)]>>
  ELSE IF At(s, i + 1) \in DOMAIN NamedRefSemi THEN <<NamedRefSemi[At(s, i + 1)]>>
  ELSE <<>>

\* html.unescape
unescape(s) == Sub(s, charref, replace_charref)

DecodePasses == 5

\* a decoder that makes one pass whatever the cap
unescape_once(s, n) == unescape(s)

\* a decoder that makes passes until one changes nothing, whatever the cap
RECURSIVE unescape_all(_, _)
unescape_all(s, n) == IF unescape(s) = s THEN s ELSE unescape_all(unescape(s), n)

\* for _ in range(n): prev = decoded; decoded = unescape(decoded); stop when unchanged
RECURSIVE unescape_loop(_, _)
unescape_loop(s, n) ==
  IF n = 0 THEN s
  ELSE LET decoded == unescape(s) IN
       IF decoded = s THEN decoded ELSE unescape_loop(decoded, n - 1)

RECURSIVE _decode_html_deeply(_), decode_items(_, _)
_decode_html_deeply(value) ==
  CASE value.k = "str" -> Str(unescape_loop(value.s, DecodePasses))
    [] value.k = "dict" -> Dict(decode_items(value.m, <<>>))
    [] value.k = "list" ->
         [k |-> "list", s |-> E,
          m |-> [i \in 1..Len(value.m) |-> <<E, _decode_html_deeply(value.m[i][2])>>]]
    [] OTHER -> value
\* the dict comprehension: a key decoded to an earlier key overwrites its value
decode_items(m, acc) ==
  IF m = <<>> THEN acc
  ELSE decode_items(Tail(m),
         Set(acc, unescape_loop(m[1][1], DecodePasses), _decode_html_deeply(m[1][2])))

-----------------------------------------------------------------------------
(* Results of functions that may raise *)

Ok(r, v) == [x |-> FALSE, r |-> r, v |-> v]
OkT(t) == [x |-> FALSE, r |-> Str(t), v |-> {}]
Raise(v) == [x |-> TRUE, r |-> None, v |-> v]

Punct == {"(", ")", "{", "}", "[", "]", ",", ":", ";", SQ, DQ, "&", "#", ".", "<", ">",
          SP, NL, "=", "-", "\\", "/"}
\* a lexeme made of \w characters
IsWord(c) == c \notin Punct
\* a lexeme matched by \s
IsSpace(c) == c \in {SP, NL}

-----------------------------------------------------------------------------
(* Property handlers (generator/property_handlers.py) *)

RECURSIVE generate_widget(_), _process_properties(_, _), process_property(_, _)

\* StringPropertyHandler.transform: "{}" for None; every other path ends without a
\* return statement, so the call yields None
StringPropertyHandler_transform(value) ==
  IF value = None THEN Ok(Str(<<"{", "}">>), {}) ELSE Ok(None, {})

StringPropertyHandler_validate(value) == value.k \in {"str", "none"}

NumberPropertyHandler_transform(is_double, value) ==
  IF value = None THEN OkT(<<"null">>)
  ELSE IF is_double /\ ~In(".", PyStr(value)) THEN OkT(PyStr(value) \o <<".", "0">>)
  ELSE OkT(PyStr(value))

NumberPropertyHandler_validate(value) == value.k \in {"int", "bool", "float", "none"}

BoolPropertyHandler_transform(value) ==
  IF value = None THEN OkT(<<"null">>)
  ELSE IF Truthy(value) THEN OkT(<<"true">>) ELSE OkT(<<"false">>)

BoolPropertyHandler_validate(value) == value.k \in {"bool", "none"}

COLOR_MAP ==
  (<<"red">> :> <<"Colors", ".", "red">>) @@ (<<"blue">> :> <<"Colors", ".", "blue">>)
  @@ (<<"green">> :> <<"Colors", ".", "green">>) @@ (<<"grey">> :> <<"Colors", ".", "grey">>)
  @@ (<<"gray">> :> <<"Colors", ".", "grey">>) @@ (<<"white">> :> <<"Colors", ".", "white">>)
  @@ (<<"black">> :> <<"Colors", ".", "black">>)
  @@ (<<"deeppurple">> :> <<"Colors", ".", "deepPurple">>)

\* value.lower().replace('_', '').replace('-', '').replace(' ', '') on the model's words
LowerTable ==
  (<<"Red">> :> <<"red">>) @@ (<<"deep_purple">> :> <<"deeppurple">>)
  @@ (<<"Deep", "-", "Purple">> :> <<"deeppurple">>) @@ (<<"topLeft">> :> <<"topleft">>)
  @@ (<<"top_left">> :> <<"topleft">>) @@ (<<"Center">> :> <<"center">>)
color_lower(s) == IF s \in DOMAIN LowerTable THEN LowerTable[s] ELSE s

\* words of the model that start with "0x"
HexWords == {"0xFF00FF00", "0xFF112233"}

ColorPropertyHandler_transform(value) ==
  IF value = None THEN OkT(<<"null">>)
  ELSE IF IsStr(value) /\ StartsWith(value.s, <<"Colors", ".">>) THEN Ok(value, {})
  ELSE IF IsStr(value) /\ color_lower(value.s) \in DOMAIN COLOR_MAP
    THEN OkT(COLOR_MAP[color_lower(value.s)])
  ELSE IF IsStr(value) /\ StartsWith(value.s, <<"#">>)
    THEN OkT(<<"Color", "(">> \o Replace(value.s, "#", <<"0xFF">>) \o <<")">>)
  ELSE IF IsStr(value) /\ value.s # E /\ value.s[1] \in HexWords
    THEN OkT(<<"Color", "(">> \o value.s \o <<")">>)
  ELSE IF IsDict(value) /\ Has(value, <<"r">>) /\ Has(value, <<"g">>) /\ Has(value, <<"b">>)
    THEN OkT(<<"Color", ".", "fromARGB", "(">> \o PyStr(Get(value, <<"a">>, IntV("255")))
             \o <<",", SP>> \o PyStr(Get(value, <<"r">>, None)) \o <<",", SP>>
             \o PyStr(Get(value, <<"g">>, None)) \o <<",", SP>>
             \o PyStr(Get(value, <<"b">>, None)) \o <<")">>)
  ELSE IF IsDict(value) /\ Has(value, <<"red">>)
    THEN OkT(<<"Color", ".", "fromARGB", "(">> \o PyStr(Get(value, <<"alpha">>, IntV("255")))
             \o <<",", SP>> \o PyStr(Get(value, <<"red">>, IntV("0"))) \o <<",", SP>>
             \o PyStr(Get(value, <<"green">>, IntV("0"))) \o <<",", SP>>
             \o PyStr(Get(value, <<"blue">>, IntV("0"))) \o <<")">>)
  ELSE OkT(<<"Colors", ".", "grey">>)

ColorPropertyHandler_validate(value) ==
  \/ value = None
  \/ IsStr(value)
  \/ IsDict(value) /\ (Has(value, <<"r">>) \/ Has(value, <<"red">>))

\* the table EnumPropertyHandler.__init__ consults when no allowed values are passed
common_enums ==
  ("MainAxisAlignment" :> <<"start", "end", "center", "spaceBetween", "spaceAround", "spaceEvenly">>)
  @@ ("CrossAxisAlignment" :> <<"start", "end", "center", "stretch", "baseline">>)
  @@ ("TextAlign" :> <<"left", "right", "center", "justify", "start", "end">>)
  @@ ("BoxFit" :> <<"fill", "contain", "cover", "fitWidth", "fitHeight", "none", "scaleDown">>)
  @@ ("Alignment" :> <<"topLeft", "topCenter", "topRight", "centerLeft", "center",
                       "centerRight", "bottomLeft", "bottomCenter", "bottomRight">>)

\* str.lower() of an enum word of the model
EnumLowerTable ==
  ("spaceBetween" :> "spacebetween") @@ ("spaceAround" :> "spacearound")
  @@ ("spaceEvenly" :> "spaceevenly") @@ ("SpaceEvenly" :> "spaceevenly")
  @@ ("CENTER" :> "center") @@ ("Center" :> "center") @@ ("fitWidth" :> "fitwidth")
  @@ ("fitHeight" :> "fitheight") @@ ("scaleDown" :> "scaledown") @@ ("Ellipsis" :> "ellipsis")
  @@ ("topLeft" :> "topleft") @@ ("topCenter" :> "topcenter") @@ ("topRight" :> "topright")
  @@ ("centerLeft" :> "centerleft") @@ ("centerRight" :> "centerright")
  @@ ("bottomLeft" :> "bottomleft") @@ ("bottomCenter" :> "bottomcenter")
  @@ ("bottomRight" :> "bottomright")
lower(w) == IF w \in DOMAIN EnumLowerTable THEN EnumLowerTable[w] ELSE w
lower_str(s) == [i \in 1..Len(s) |-> lower(s[i])]

EnumPropertyHandler_init(enum_class, allowed_values) ==
  [h |-> "enum", is_double |-> FALSE, enum_class |-> enum_class,
   allowed_values |->
     IF allowed_values = <<>> /\ enum_class \in {<<c>> : c \in DOMAIN common_enums}
     THEN common_enums[enum_class[1]] ELSE allowed_values,
   item |-> "", widget_generator |-> FALSE]

EnumPropertyHandler_transform(self, value) ==
  IF value = None THEN OkT(<<"null">>)
  ELSE IF IsStr(value) /\ In(".", value.s) THEN Ok(value, {})
  ELSE LET value_str == PyStr(value)
           exact == {i \in 1..Len(self.allowed_values) : <<self.allowed_values[i]>> = value_str}
           nocase == {i \in 1..Len(self.allowed_values) :
                        <<lower(self.allowed_values[i])>> = lower_str(value_str)}
           first(S) == CHOOSE i \in S : \A j \in S : i <= j
       IN IF exact # {} THEN OkT(self.enum_class \o <<".">> \o value_str)
          ELSE IF nocase # {}
            THEN OkT(self.enum_class \o <<".", self.allowed_values[first(nocase)]>>)
          ELSE OkT(self.enum_class \o <<".">> \o value_str)

EnumPropertyHandler_validate(value) == TRUE

WidgetPropertyHandler_validate(value) == value.k \in {"dict", "str", "none"}

\* numerals of the model, for float(value) and int(value)
Numerals == {"0", "1", "2", "3", "4", "8", "12", "16", "20", "24", "100", "200", "255", "300"}

RECURSIVE Split(_, _)
Split(s, c) ==
  IF ~In(c, s) THEN <<s>>
  ELSE LET i == CHOOSE j \in 1..Len(s) : s[j] = c /\ \A l \in 1..(j - 1) : s[l] # c
       IN <<SubSeq(s, 1, i - 1)>> \o Split(SubSeq(s, i + 1, Len(s)), c)

\* str(float(value)) where float() accepts the text, else <<>>
float_str(s) ==
  IF Len(s) = 1 /\ s[1] \in Numerals THEN <<s[1], ".", "0">>
  ELSE IF Len(s) = 3 /\ s[1] \in Numerals /\ s[2] = "." /\ s[3] \in Numerals THEN s
  ELSE <<>>

dot0(v) == PyStr(v) \o <<".", "0">>

RECURSIVE clean_keys(_, _)
clean_keys(m, acc) ==
  IF m = <<>> THEN acc
  ELSE clean_keys(Tail(m), Set(acc, unescape_loop(m[1][1], 5), m[1][2]))

EdgeInsetsPropertyHandler_transform(value0) ==
  LET value == IF IsStr(value0) THEN Str(unescape_loop(value0.s, 5)) ELSE value0
      zero == IntV("0")
      clean_dict == Dict(clean_keys(value.m, <<>>))
      sym == Get(value, <<"symmetric">>, None)
      symmetric(d) ==
        OkT(<<"EdgeInsets", ".", "symmetric", "(", "horizontal", ":", SP>>
            \o dot0(Get(d, <<"horizontal">>, zero)) \o <<",", SP, "vertical", ":", SP>>
            \o dot0(Get(d, <<"vertical">>, zero)) \o <<")">>)
      all(v) == OkT(<<"EdgeInsets", ".", "all", "(">> \o dot0(v) \o <<")">>)
      ltrb(l, t, r, b) ==
        OkT(<<"EdgeInsets", ".", "fromLTRB", "(">> \o l \o <<".", "0", ",", SP>> \o t
            \o <<".", "0", ",", SP>> \o r \o <<".", "0", ",", SP>> \o b \o <<".", "0", ")">>)
      parts == Split(value.s, ",")
  IN
  IF value = None THEN OkT(<<"null">>)
  ELSE IF IsDict(value) /\ Has(clean_dict, <<"all">>) THEN all(Get(clean_dict, <<"all">>, None))
  ELSE IF IsDict(value) /\ Has(value, <<"symmetric">>) /\ IsDict(sym) THEN symmetric(sym)
  ELSE IF IsDict(value) /\ Has(value, <<"symmetric">>)
    \* falls through to the last dict test: 'all' is not a key here
    THEN OkT(<<"EdgeInsets", ".", "zero">>)
  ELSE IF IsDict(value) /\ (Has(value, <<"horizontal">>) \/ Has(value, <<"vertical">>))
    THEN symmetric(value)
  ELSE IF IsDict(value)
    THEN ltrb(PyStr(Get(value, <<"left">>, zero)), PyStr(Get(value, <<"top">>, zero)),
              PyStr(Get(value, <<"right">>, zero)), PyStr(Get(value, <<"bottom">>, zero)))
  ELSE IF IsNumber(value) THEN all(value)
  ELSE IF IsStr(value) /\ In(",", value.s) /\ Len(parts) = 4
    THEN ltrb(parts[1], parts[2], parts[3], parts[4])
  ELSE IF IsStr(value) /\ ~In(",", value.s) /\ float_str(value.s) # <<>>
    THEN all(Str(float_str(value.s)))
  ELSE OkT(<<"EdgeInsets", ".", "zero">>)

EdgeInsetsPropertyHandler_validate(value) == TRUE

ALIGNMENT_MAP ==
  (<<"topleft">> :> "topLeft") @@ (<<"topcenter">> :> "topCenter")
  @@ (<<"topright">> :> "topRight") @@ (<<"centerleft">> :> "centerLeft")
  @@ (<<"center">> :> "center") @@ (<<"centerright">> :> "centerRight")
  @@ (<<"bottomleft">> :> "bottomLeft") @@ (<<"bottomcenter">> :> "bottomCenter")
  @@ (<<"bottomright">> :> "bottomRight")

AlignmentPropertyHandler_transform(value) ==
  IF value = None THEN OkT(<<"null">>)
  ELSE IF IsStr(value) /\ StartsWith(value.s, <<"Alignment", ".">>) THEN Ok(value, {})
  ELSE IF IsStr(value) /\ color_lower(value.s) \in DOMAIN ALIGNMENT_MAP
    THEN OkT(<<"Alignment", ".", ALIGNMENT_MAP[color_lower(value.s)]>>)
  ELSE IF IsDict(value)
    THEN OkT(<<"Alignment", "(">> \o PyStr(Get(value, <<"x">>, IntV("0"))) \o <<",", SP>>
             \o PyStr(Get(value, <<"y">>, IntV("0"))) \o <<")">>)
  ELSE OkT(<<"Alignment", ".", "center">>)

AlignmentPropertyHandler_validate(value) == TRUE

\* weight = value[key]; if not weight.startswith(prefix): weight = prefix + weight.
\* <<>> stands for the AttributeError of a value that is not a string
prefixed(v, prefix) ==
  IF ~IsStr(v) THEN <<>>
  ELSE IF StartsWith(v.s, <<prefix, ".">>) THEN v.s ELSE <<prefix, ".">> \o v.s

TextStylePropertyHandler_transform(value) ==
  IF value = None THEN OkT(<<"null">>)
  ELSE IF ~IsDict(value) THEN OkT(<<"TextStyle", "(", ")">>)
  ELSE IF \/ Has(value, <<"fontWeight">>) /\ ~IsStr(Get(value, <<"fontWeight">>, None))
          \/ Has(value, <<"fontStyle">>) /\ ~IsStr(Get(value, <<"fontStyle">>, None))
    THEN Raise({})
  ELSE LET num(key) == IF Has(value, <<key>>)
                       THEN << <<key, ":", SP>> \o dot0(Get(value, <<key>>, None)) >> ELSE <<>>
           pre(key, prefix) ==
             IF Has(value, <<key>>)
             THEN << <<key, ":", SP>> \o prefixed(Get(value, <<key>>, None), prefix) >> ELSE <<>>
           color == IF Has(value, <<"color">>)
                    THEN << <<"color", ":", SP>>
                            \o ColorPropertyHandler_transform(Get(value, <<"color">>, None)).r.s >>
                    ELSE <<>>
           props == num("fontSize") \o pre("fontWeight", "FontWeight")
                    \o pre("fontStyle", "FontStyle") \o color \o num("letterSpacing")
                    \o num("wordSpacing") \o num("height")
       IN IF props # <<>>
          THEN OkT(<<"TextStyle", "(">> \o Join(props, <<",", SP>>) \o <<")">>)
          ELSE OkT(<<"TextStyle", "(", ")">>)

TextStylePropertyHandler_validate(value) == value = None \/ IsDict(value)

\* int(value) of a number
int_str(v) == IF v = True THEN <<"1">> ELSE IF v = False THEN <<"0">> ELSE <<v.s[1]>>

DurationPropertyHandler_transform(value) ==
  LET unit(u) == OkT(<<"Duration", "(", u, ":", SP>> \o PyStr(Get(value, <<u>>, None)) \o <<")">>)
  IN
  IF value = None THEN OkT(<<"null">>)
  ELSE IF IsDict(value) /\ Has(value, <<"milliseconds">>) THEN unit("milliseconds")
  ELSE IF IsDict(value) /\ Has(value, <<"seconds">>) THEN unit("seconds")
  ELSE IF IsDict(value) /\ Has(value, <<"minutes">>) THEN unit("minutes")
  ELSE IF IsNumber(value)
    THEN OkT(<<"Duration", "(", "milliseconds", ":", SP>> \o int_str(value) \o <<")">>)
  ELSE OkT(<<"Duration", "(", "seconds", ":", SP, "1", ")">>)

DurationPropertyHandler_validate(value) == TRUE

MapPropertyHandler_transform(value) ==
  LET val(v) == IF IsStr(v) THEN <<SQ>> \o v.s \o <<SQ>>
                ELSE IF IsBool(v) THEN (IF Truthy(v) THEN <<"true">> ELSE <<"false">>)
                ELSE IF IsNumber(v) THEN PyStr(v)
                ELSE <<"null">>
      items == [i \in 1..Len(value.m) |->
                  <<SQ>> \o value.m[i][1] \o <<SQ, ":", SP>> \o val(value.m[i][2])]
  IN IF IsDict(value) THEN OkT(<<"{">> \o Join(items, <<",", SP>>) \o <<"}">>)
     ELSE OkT(<<"{", "}">>)

MapPropertyHandler_validate(value) == value = None \/ IsDict(value)

\* property_handlers.decode_html_entities: three passes
decode_html_entities(s) == unescape_loop(s, 3)

CustomPropertyHandler_transform(value) ==
  IF value = None THEN OkT(<<"null">>)
  ELSE IF IsStr(value) THEN OkT(decode_html_entities(value.s))
  ELSE OkT(PyStr(value))

CustomPropertyHandler_validate(value) == TRUE

-----------------------------------------------------------------------------
(* PropertyHandlerFactory.get_handler *)

Handler(h) ==
  [h |-> h, is_double |-> FALSE, enum_class |-> E, allowed_values |-> <<>>, item |-> "",
   widget_generator |-> FALSE]

\* keyword arguments passed to get_handler: keys is the set of names supplied
NoKwargs == [keys |-> {}, enum_class |-> E, allowed_values |-> <<>>]
EnumKwargs(enum_class, allowed_values) ==
  [keys |-> {"enum_class", "allowed_values"}, enum_class |-> enum_class,
   allowed_values |-> allowed_values]
GeneratorKwargs == [keys |-> {"widget_generator"}, enum_class |-> E, allowed_values |-> <<>>]

default_handlers ==
  {"string", "int", "double", "bool", "color", "edge_insets", "alignment", "text_style",
   "duration", "map"}

\* property types ending in "_list" and their base type
ListBase == ("widget_list" :> "widget") @@ ("string_list" :> "string") @@ ("int_list" :> "int")

WidgetPropertyHandler_init(kwargs) ==
  IF kwargs.keys \subseteq {"widget_generator"}
  THEN [x |-> FALSE,
        handler |-> [Handler("widget") EXCEPT !.widget_generator = "widget_generator" \in kwargs.keys]]
  ELSE [x |-> TRUE, handler |-> Handler("widget")]

\* returns [x, handler]; x is the TypeError of a constructor called with the wrong keywords
get_handler(property_type, kwargs) ==
  IF property_type \in default_handlers
    THEN [x |-> FALSE,
          handler |-> IF property_type \in {"int", "double"}
                      THEN [Handler("number") EXCEPT !.is_double = (property_type = "double")]
                      ELSE Handler(property_type)]
  ELSE IF property_type = "enum"
    THEN IF "enum_class" \in kwargs.keys /\ kwargs.keys \subseteq {"enum_class", "allowed_values"}
         THEN [x |-> FALSE,
               handler |-> EnumPropertyHandler_init(kwargs.enum_class, kwargs.allowed_values)]
         ELSE [x |-> TRUE, handler |-> Handler("enum")]
  ELSE IF property_type = "widget" THEN WidgetPropertyHandler_init(kwargs)
  ELSE IF property_type = "widget_list"
    THEN LET w == WidgetPropertyHandler_init(kwargs)
         IN [x |-> w.x, handler |-> [w.handler EXCEPT !.h = "list", !.item = "widget"]]
  ELSE IF property_type \in DOMAIN ListBase
    \* the base types of the model are default handlers, which ignore the keywords
    THEN [x |-> FALSE,
          handler |-> [Handler("list") EXCEPT
                         !.item = IF ListBase[property_type] = "int" THEN "number"
                                  ELSE ListBase[property_type]]]
  ELSE IF property_type = "custom" THEN [x |-> FALSE, handler |-> Handler("custom")]
  ELSE [x |-> FALSE, handler |-> Handler("string")]

RECURSIVE validate(_, _)
validate(handler, value) ==
  CASE handler.h = "string" -> StringPropertyHandler_validate(value)
    [] handler.h = "number" -> NumberPropertyHandler_validate(value)
    [] handler.h = "bool" -> BoolPropertyHandler_validate(value)
    [] handler.h = "color" -> ColorPropertyHandler_validate(value)
    [] handler.h = "enum" -> EnumPropertyHandler_validate(value)
    [] handler.h = "widget" -> WidgetPropertyHandler_validate(value)
    [] handler.h = "list" ->
         \* ListPropertyHandler.validate
         LET item == [handler EXCEPT !.h = handler.item] IN
         IF value = None THEN TRUE
         ELSE IF ~IsList(value) THEN validate(item, value)
         ELSE \A i \in 1..Len(value.m) : validate(item, value.m[i][2])
    [] handler.h = "edge_insets" -> EdgeInsetsPropertyHandler_validate(value)
    [] handler.h = "alignment" -> AlignmentPropertyHandler_validate(value)
    [] handler.h = "text_style" -> TextStylePropertyHandler_validate(value)
    [] handler.h = "duration" -> DurationPropertyHandler_validate(value)
    [] handler.h = "map" -> MapPropertyHandler_validate(value)
    [] OTHER -> CustomPropertyHandler_validate(value)

\* WidgetPropertyHandler.transform
WidgetPropertyHandler_transform(self, value) ==
  IF value = None THEN OkT(<<"null">>)
  ELSE IF IsDict(value)
    THEN IF self.widget_generator THEN generate_widget(value)
         ELSE OkT(PyStr(Get(value, <<"type">>, W("Container"))) \o <<"(", ")">>)
  ELSE IF IsStr(value) THEN Ok(value, {})
  ELSE OkT(<<"Container", "(", ")">>)

RECURSIVE transform(_, _), transform_items(_, _, _, _), append_item(_, _, _, _, _)
transform(handler, value) ==
  CASE handler.h = "string" -> StringPropertyHandler_transform(value)
    [] handler.h = "number" -> NumberPropertyHandler_transform(handler.is_double, value)
    [] handler.h = "bool" -> BoolPropertyHandler_transform(value)
    [] handler.h = "color" -> ColorPropertyHandler_transform(value)
    [] handler.h = "enum" -> EnumPropertyHandler_transform(handler, value)
    [] handler.h = "widget" -> WidgetPropertyHandler_transform(handler, value)
    [] handler.h = "list" ->
         \* ListPropertyHandler.transform
         IF value = None THEN OkT(<<"[", "]">>)
         ELSE transform_items([handler EXCEPT !.h = handler.item],
                              IF IsList(value) THEN value.m ELSE << <<E, value>> >>, <<>>, {})
    [] handler.h = "edge_insets" -> EdgeInsetsPropertyHandler_transform(value)
    [] handler.h = "alignment" -> AlignmentPropertyHandler_transform(value)
    [] handler.h = "text_style" -> TextStylePropertyHandler_transform(value)
    [] handler.h = "duration" -> DurationPropertyHandler_transform(value)
    [] handler.h = "map" -> MapPropertyHandler_transform(value)
    [] OTHER -> CustomPropertyHandler_transform(value)
\* the loop of ListPropertyHandler.transform and its ', '.join(items), which raises
\* TypeError when an item is not a string
transform_items(item, m, items, v) ==
  IF m = <<>>
  THEN IF \E i \in 1..Len(items) : ~IsStr(items[i]) THEN Raise(v)
       ELSE Ok(Str(<<"[">> \o Join([i \in 1..Len(items) |-> items[i].s], <<",", SP>>) \o <<"]">>), v)
  ELSE append_item(item, m, items, v, transform(item, m[1][2]))
\* items.append(self.item_handler.transform(v)) and the rest of the loop
append_item(item, m, items, v, transformed) ==
  IF transformed.x THEN Raise(v \cup transformed.v)
  ELSE transform_items(item, Tail(m), Append(items, transformed.r), v \cup transformed.v)

-----------------------------------------------------------------------------
(* The widget schema (generator/models.py): the rows the generator reads *)

WidgetProperty(name, property_type, dart_type, is_required, default_value, allowed_values) ==
  [name |-> <<name>>, property_type |-> property_type, dart_type |-> dart_type,
   is_required |-> is_required, default_value |-> default_value,
   allowed_values |-> allowed_values]

WidgetTemplate(template_name, template_code, is_active, priority, conditions) ==
  [template_name |-> template_name, template_code |-> template_code,
   is_active |-> is_active, priority |-> priority, conditions |-> conditions]

\* properties are listed in the order of WidgetProperty.Meta.ordering (position, name);
\* templates in the order of their primary keys
WidgetType(name, is_container, can_have_multiple_children, is_active, properties, templates) ==
  [name |-> <<name>>, dart_class_name |-> <<name>>, is_container |-> is_container,
   can_have_multiple_children |-> can_have_multiple_children, is_active |-> is_active,
   properties |-> properties, templates |-> templates]

NoValues == Dict(<<>>)

\* a template body: Django template source.  The model knows the three bodies of
\* _get_default_template and stored bodies that use no variable of the render context
\* (form "static": the text is emitted as it stands) or that do not compile ("malformed")
Body(form, text) == [form |-> form, text |-> text]

FancyBody ==
  Body("static", <<"ElevatedButton", "(", NL, SP, SP, "onPressed", ":", SP, "(", ")", SP,
                   "{", "}", ",", NL, ")">>)
PlainBody == Body("static", <<"ElevatedButton", "(", NL, SP, SP, NL, ")">>)
OldBody == Body("static", <<"OldButton", "(", ")">>)
BrokenBody == Body("malformed", <<"{", "%", SP, "if", SP, "%", "}">>)
CardBody(kind) == Body("static", <<"Card", "(", NL, SP, SP, "key", ":", SP, "Key", "(", SQ, kind, SQ,
                                   ")", ",", NL, ")">>)

WidgetTypes ==
  { WidgetType("Text", FALSE, FALSE, TRUE,
      << WidgetProperty("data", "string", <<"String">>, TRUE, E, NoValues),
         WidgetProperty("style", "text_style", <<"TextStyle">>, FALSE, E, NoValues),
         WidgetProperty("textAlign", "enum", <<"TextAlign">>, FALSE, E, NoValues) >>, <<>>),
    WidgetType("Icon", FALSE, FALSE, TRUE,
      << WidgetProperty("color", "color", <<"Color">>, FALSE, E, NoValues),
         WidgetProperty("size", "double", <<"double">>, FALSE, E, NoValues) >>, <<>>),
    WidgetType("Column", TRUE, TRUE, TRUE,
      << WidgetProperty("crossAxisAlignment", "enum", <<"CrossAxisAlignment">>, FALSE, E, NoValues),
         WidgetProperty("mainAxisAlignment", "enum", <<"MainAxisAlignment">>, FALSE, E, NoValues) >>,
      <<>>),
    WidgetType("Container", TRUE, FALSE, TRUE,
      << WidgetProperty("color", "color", <<"Color">>, FALSE, E, NoValues),
         WidgetProperty("height", "double", <<"double">>, FALSE, E, NoValues),
         WidgetProperty("padding", "edge_insets", <<"EdgeInsets">>, FALSE, E, NoValues) >>,
      <<>>),
    WidgetType("Slider", FALSE, FALSE, TRUE,
      << WidgetProperty("divisions", "int", <<"int">>, FALSE, <<"4">>, NoValues),
         WidgetProperty("label", "string", <<"String">>, FALSE, E, NoValues),
         WidgetProperty("mode", "enum", <<"SliderMode", ".", "fast">>, FALSE, E,
                        Dict(<< <<<<"values">>, List(<<W("fast"), W("slow")>>)>> >>)),
         WidgetProperty("overflow", "enum", <<"TextOverflow">>, FALSE, E, NoValues),
         WidgetProperty("value", "double", <<"double">>, TRUE, E, NoValues) >>, <<>>),
    WidgetType("Image", FALSE, FALSE, TRUE,
      << WidgetProperty("fit", "enum", <<"BoxFit">>, FALSE, <<"cover">>, NoValues),
         WidgetProperty("semanticLabel", "string", <<"String">>, TRUE, E, NoValues),
         WidgetProperty("width", "double", <<"double">>, FALSE, <<"null">>, NoValues) >>, <<>>),
    WidgetType("ElevatedButton", TRUE, FALSE, TRUE,
      << WidgetProperty("onPressed", "custom", <<"VoidCallback">>, TRUE, E, NoValues) >>,
      << WidgetTemplate("default", PlainBody, TRUE, 0, Dict(<<>>)),
         WidgetTemplate("old", OldBody, FALSE, 9, Dict(<<>>)),
         WidgetTemplate("fancy", FancyBody, TRUE, 5,
                        Dict(<< <<<<"style">>, W("fancy")>> >>)),
         WidgetTemplate("broken", BrokenBody, TRUE, 7,
                        Dict(<< <<<<"properties", ".", "variant">>,
                                  List(<<W("broken"), IntV("1")>>)>> >>)) >>),
    WidgetType("Card", TRUE, FALSE, TRUE,
      << WidgetProperty("elevation", "double", <<"double">>, FALSE, E, NoValues) >>,
      << WidgetTemplate("base", CardBody("base"), TRUE, 3, Dict(<<>>)),
         WidgetTemplate("elevated", CardBody("elevated"), TRUE, 8,
                        Dict(<< <<<<"properties", ".", "elevated">>, True>> >>)),
         WidgetTemplate("outlined", CardBody("outlined"), TRUE, 6,
                        Dict(<< <<<<"variant">>, List(<<W("outlined"), W("bordered")>>)>>,
                                <<<<"style">>, W("plain")>> >>)),
         WidgetTemplate("retired", CardBody("retired"), FALSE, 10, Dict(<<>>)) >>),
    WidgetType("ListTile", FALSE, FALSE, TRUE,
      << WidgetProperty("dense", "bool", <<"bool">>, FALSE, E, NoValues) >>,
      << WidgetTemplate("draft", Body("static", <<"ListTile", "(", ")">>), FALSE, 4, Dict(<<>>)),
         WidgetTemplate("compact", Body("static", <<"ListTile", "(", "dense", ":", SP, "true", ")">>),
                        FALSE, 2, Dict(<< <<<<"style">>, W("plain")>> >>)) >>),
    WidgetType("CarouselSlider", TRUE, TRUE, TRUE, <<>>, <<>>),
    WidgetType("IconButton", FALSE, FALSE, TRUE, <<>>, <<>>),
    WidgetType("FloatingActionButton", TRUE, FALSE, TRUE, <<>>, <<>>),
    WidgetType("Badge", TRUE, FALSE, TRUE, <<>>, <<>>),
    WidgetType("Legacy", FALSE, FALSE, FALSE, <<>>, <<>>) }

Row(name) == CHOOSE w \in WidgetTypes : w.name = name

\* WidgetType.objects.get(name=..., is_active=True) finds a row
Exists(name) == \E w \in WidgetTypes : w.name = name /\ w.is_active

\* the row fields a cached model instance holds
Fields(w) ==
  [name |-> w.name, dart_class_name |-> w.dart_class_name, is_container |-> w.is_container,
   can_have_multiple_children |-> w.can_have_multiple_children, is_active |-> w.is_active]

\* widget_type.properties.all() and widget_type.templates query the database again
properties_all(widget_type) == Row(widget_type.name).properties
templates_all(widget_type) == Row(widget_type.name).templates

-----------------------------------------------------------------------------
(* DynamicWidgetGenerator (generator/widget_generator.py) *)

EmptyDict == Dict(<<>>)
K(w) == <<w>>

\* the loop of _generate_fallback_widget over props.items()
RECURSIVE fallback_props(_)
fallback_props(m) ==
  IF m = <<>> THEN <<>>
  ELSE LET key == m[1][1]
           value == m[1][2]
       IN (IF IsStr(value) THEN << key \o <<":", SP, SQ>> \o value.s \o <<SQ>> >>
           ELSE IF IsBool(value)
             THEN << key \o <<":", SP>> \o (IF value = True THEN <<"true">> ELSE <<"false">>) >>
           ELSE IF IsNumber(value) THEN << key \o <<":", SP>> \o PyStr(value) >>
           ELSE <<>>)
          \o fallback_props(Tail(m))

_generate_fallback_widget(component_data) ==
  IF ~IsDict(component_data) THEN Raise({})
  ELSE LET widget_type == Get(component_data, K("type"), W("Container"))
           props == Get(component_data, K("properties"), EmptyDict)
       IN IF ~IsDict(props) THEN Raise({})
          ELSE OkT(PyStr(widget_type) \o <<"(">>
                   \o Join(fallback_props(props.m), <<",", SP>>) \o <<")">>)

_generate_text_widget(component_data) ==
  LET props == _decode_html_deeply(Get(component_data, K("properties"), EmptyDict))
      text_data == Get(props, K("data"), Get(props, K("text"), W("Text")))
      text == Replace(_decode_html_deeply(Str(PyStr(text_data))).s, SQ, <<"\\", SQ>>)
      style == Get(props, K("style"), None)
      fontSize(d) == IF Has(d, K("fontSize"))
                     THEN << <<"fontSize", ":", SP>> \o dot0(Get(d, K("fontSize"), None)) >>
                     ELSE <<>>
      weight == Get(style, K("fontWeight"), None)
      style_props ==
        IF Has(props, K("style"))
        THEN IF IsDict(style)
             THEN fontSize(style)
                  \o (IF Has(style, K("fontWeight"))
                      THEN << <<"fontWeight", ":", SP>> \o prefixed(weight, "FontWeight") >>
                      ELSE <<>>)
                  \o (IF Has(style, K("color"))
                      THEN << <<"color", ":", SP>>
                              \o ColorPropertyHandler_transform(Get(style, K("color"), None)).r.s >>
                      ELSE <<>>)
             ELSE <<>>
        ELSE fontSize(props)
  IN
  IF ~IsDict(props) THEN Raise({})
  ELSE IF Has(props, K("style")) /\ IsDict(style) /\ Has(style, K("fontWeight")) /\ ~IsStr(weight)
    THEN Raise({})
  ELSE IF style_props # <<>>
    THEN OkT(<<"Text", "(", SQ>> \o text \o <<SQ, ",", SP, "style", ":", SP, "TextStyle", "(">>
             \o Join(style_props, <<",", SP>>) \o <<")", ")">>)
  ELSE OkT(<<"Text", "(", SQ>> \o text \o <<SQ, ")">>)

_generate_icon_widget(component_data) ==
  LET props == _decode_html_deeply(Get(component_data, K("properties"), EmptyDict))
      icon == Get(props, K("icon"), Str(<<"Icons", ".", "info">>))
      icon_name == IF StartsWith(icon.s, <<"Icons", ".">>) THEN icon.s
                   ELSE <<"Icons", ".">> \o icon.s
      parts == (IF Has(props, K("size"))
                THEN << <<"size", ":", SP>> \o dot0(Get(props, K("size"), None)) >> ELSE <<>>)
               \o (IF Has(props, K("color"))
                   THEN << <<"color", ":", SP>>
                           \o ColorPropertyHandler_transform(Get(props, K("color"), None)).r.s >>
                   ELSE <<>>)
  IN
  IF ~IsDict(props) \/ ~IsStr(icon) THEN Raise({})
  ELSE IF parts # <<>>
    THEN OkT(<<"Icon", "(">> \o icon_name \o <<",", SP>> \o Join(parts, <<",", SP>>) \o <<")">>)
  ELSE OkT(<<"Icon", "(">> \o icon_name \o <<")">>)

\* Python ==  between JSON values: True == 1, False == 0 and 1 == 1.0 besides identity
PyEq(a, b) ==
  LET num(v) == IF v = True THEN <<"1">> ELSE IF v = False THEN <<"0">>
                ELSE IF v.k = "float" /\ Len(v.s) = 3 /\ v.s[3] = "0" THEN <<v.s[1]>> ELSE v.s
  IN IF IsNumber(a) /\ IsNumber(b) THEN num(a) = num(b) ELSE a = b

\* a lookup of the dotted key as it stands, without walking
walk_flat(actual_value, keys) ==
  IF IsDict(actual_value) THEN Get(actual_value, Join(keys, <<".">>), None) ELSE None

\* the walk of _matches_conditions along a dotted key
RECURSIVE walk(_, _)
walk(actual_value, keys) ==
  IF keys = <<>> THEN actual_value
  ELSE IF IsDict(actual_value) THEN walk(Get(actual_value, keys[1], None), Tail(keys))
  ELSE None

_matches_conditions(conditions, component_data) ==
  IF ~Truthy(conditions) THEN TRUE
  ELSE \A i \in 1..Len(conditions.m) :
         LET key == conditions.m[i][1]
             expected_value == conditions.m[i][2]
             actual_value == IF In(".", key) THEN walk(component_data, Split(key, "."))
                             ELSE Get(component_data, key, None)
         IN IF IsList(expected_value)
            THEN \E j \in 1..Len(expected_value.m) : PyEq(expected_value.m[j][2], actual_value)
            ELSE PyEq(actual_value, expected_value)

DefaultMulti == Body("default_multi", E)
DefaultSingle == Body("default_single", E)
DefaultLeaf == Body("default_leaf", E)

\* a choice of default template that ignores can_have_multiple_children
any_container_template(widget_type) ==
  IF widget_type.is_container THEN DefaultMulti ELSE DefaultLeaf

_get_default_template(widget_type) ==
  IF widget_type.is_container /\ widget_type.can_have_multiple_children THEN DefaultMulti
  ELSE IF widget_type.is_container THEN DefaultSingle
  ELSE DefaultLeaf

\* templates.filter(is_active=True).order_by('-priority'): the indices of the active
\* templates, highest priority first, equal priorities in primary-key order
RECURSIVE by_priority(_, _)
by_priority(templates, todo) ==
  IF todo = {} THEN <<>>
  ELSE LET i == CHOOSE j \in todo :
                  \A l \in todo : \/ templates[j].priority > templates[l].priority
                                  \/ templates[j].priority = templates[l].priority /\ j <= l
       IN <<templates[i]>> \o by_priority(templates, todo \ {i})

\* the templates of a type ordered by priority, the inactive ones included
unfiltered_templates(widget_type) ==
  by_priority(templates_all(widget_type), 1..Len(templates_all(widget_type)))

active_templates(widget_type) ==
  LET all == templates_all(widget_type)
  IN by_priority(all, {i \in 1..Len(all) : all[i].is_active})

_get_template(widget_type, component_data) ==
  LET templates == active_templates(widget_type)
      matching == {i \in 1..Len(templates) :
                     _matches_conditions(templates[i].conditions, component_data)}
  IN IF matching # {}
     THEN templates[CHOOSE i \in matching : \A j \in matching : i <= j].template_code
     ELSE _get_default_template(widget_type)

-----------------------------------------------------------------------------
(* Regular-expression substitutions and template rendering *)

\* first index >= i whose lexeme is not white space / not a word (Len(s) + 1 when none)
RECURSIVE skip_space(_, _), skip_word(_, _)
skip_space(s, i) == IF i <= Len(s) /\ IsSpace(s[i]) THEN skip_space(s, i + 1) ELSE i
skip_word(s, i) == IF i <= Len(s) /\ IsWord(s[i]) THEN skip_word(s, i + 1) ELSE i

Boundary(s, i) == i < 1 \/ i > Len(s) \/ ~IsWord(s[i])
Quote == {SQ, DQ}

\* ,\s*X for a closing lexeme X in close: the match length at i
comma_before(s, i, close) ==
  IF s[i] = "," /\ At(s, skip_space(s, i + 1)) \in close THEN skip_space(s, i + 1) - i + 1 ELSE 0

\* r"\{['\"][\w]+['\"]\s*:\s*[^}]+\}"
dict_pattern(s, i) ==
  LET q == skip_word(s, i + 2)
      c == skip_space(s, q + 1)
      close == IF \E j \in (c + 1)..Len(s) : s[j] = "}"
               THEN CHOOSE j \in (c + 1)..Len(s) : s[j] = "}" /\ \A l \in (c + 1)..(j - 1) : s[l] # "}"
               ELSE 0
  IN IF s[i] = "{" /\ At(s, i + 1) \in Quote /\ q > i + 2 /\ At(s, q) \in Quote
        /\ At(s, c) = ":" /\ close > c + 1
     THEN close - i + 1 ELSE 0

\* r"\{['\"]?\w+['\"]?\s*:\s*null\}"
null_dict_pattern(s, i) ==
  LET w == IF At(s, i + 1) \in Quote THEN i + 2 ELSE i + 1
      q == skip_word(s, w)
      c == skip_space(s, IF At(s, q) \in Quote THEN q + 1 ELSE q)
      n == skip_space(s, c + 1)
  IN IF s[i] = "{" /\ q > w /\ At(s, c) = ":" /\ At(s, n) = "null" /\ At(s, n + 1) = "}"
     THEN n + 1 - i + 1 ELSE 0

\* r"\n\s*\n": the longest run of white space after the newline that ends in a newline
blank_lines(s, i) ==
  LET e == skip_space(s, i + 1)
      last == {j \in (i + 1)..(e - 1) : s[j] = NL}
  IN IF s[i] = NL /\ last # {} THEN (CHOOSE j \in last : \A l \in last : l <= j) - i + 1 ELSE 0

\* django.utils.html.escape, applied to every {{ variable }}
escape(s) ==
  Concat([i \in 1..Len(s) |->
            CASE s[i] = "&" -> <<"&", "amp", ";">>
              [] s[i] = "<" -> <<"&", "lt", ";">>
              [] s[i] = ">" -> <<"&", "gt", ";">>
              [] s[i] = DQ -> <<"&", "quot", ";">>
              [] s[i] = SQ -> <<"&", "#", "x27", ";">>
              [] OTHER -> <<s[i]>>])

\* {{ value }}: None prints as None
variable(value) == IF value = None THEN <<"None">> ELSE escape(value.s)

RECURSIVE strip(_)
strip(s) ==
  IF s # <<>> /\ IsSpace(s[1]) THEN strip(Tail(s))
  ELSE IF s # <<>> /\ IsSpace(s[Len(s)]) THEN strip(SubSeq(s, 1, Len(s) - 1))
  ELSE s

\* {% for prop in properties %}{% if prop.value != "null" %}  {{ prop.name }}: {{ prop.value }},\n
RECURSIVE render_properties(_)
render_properties(properties) ==
  IF properties = <<>> THEN <<>>
  ELSE (IF properties[1].value # Str(<<"null">>)
        THEN <<SP, SP>> \o escape(properties[1].name) \o <<":", SP>>
             \o variable(properties[1].value) \o <<",", NL>>
        ELSE <<>>) \o render_properties(Tail(properties))

\* {% for child in children %}    {{ child }},\n
RECURSIVE render_children(_)
render_children(children) ==
  IF children = <<>> THEN <<>>
  ELSE <<SP, SP, SP, SP>> \o escape(children[1]) \o <<",", NL>> \o render_children(Tail(children))

\* Template(template_string).render(Context(...)) for the bodies of the model
template_render(template_string, widget_name, properties, children) ==
  LET head == escape(widget_name) \o <<"(", NL>> \o render_properties(properties)
  IN CASE template_string.form = "default_multi" ->
            head \o (IF children # <<>>
                     THEN <<SP, SP, "children", ":", SP, "[", NL>> \o render_children(children)
                          \o <<SP, SP, "]", ",", NL>>
                     ELSE <<>>) \o <<")">>
       [] template_string.form = "default_single" ->
            head \o (IF children # <<>>
                     THEN <<SP, SP, "child", ":", SP>> \o escape(children[1]) \o <<",", NL>>
                     ELSE <<>>) \o <<")">>
       [] template_string.form = "default_leaf" -> head \o <<")">>
       [] OTHER -> template_string.text

_render_template(template_string, widget_type, properties, children) ==
  IF template_string.form = "malformed"
  THEN _generate_fallback_widget(Dict(<< <<K("type"), Str(widget_type.name)>> >>))
  ELSE LET rendered == strip(template_render(template_string, widget_type.dart_class_name,
                                             properties, children))
           null(s, i) == <<"null">>
           nodicts == Sub(Sub(rendered, dict_pattern, null), null_dict_pattern, null)
           decoded == unescape_loop(nodicts, 5)
           closing(s, i) == comma_before(s, i, {"}", ")"})
           uncomma(s, i) == SubSeq(s, i + 1, i + closing(s, i) - 1)
           newline(s, i) == <<NL>>
       IN OkT(Sub(Sub(decoded, closing, uncomma), blank_lines, newline))

_validate_and_clean_output(code) ==
  LET none(s, i) == IF s[i] = "None" /\ Boundary(s, i - 1) /\ Boundary(s, i + 1) THEN 1 ELSE 0
      null(s, i) == <<"null">>
      badges(s, i) == IF s[i] = "badges" /\ Boundary(s, i - 1) /\ At(s, i + 1) = "." THEN 2 ELSE 0
      nothing(s, i) == <<>>
      commas(s, i) == comma_before(s, i, {","})
      comma(s, i) == <<",">>
      paren(s, i) == comma_before(s, i, {")"})
      close_paren(s, i) == <<")">>
      bracket(s, i) == comma_before(s, i, {"]"})
      close_bracket(s, i) == <<"]">>
      decoded == unescape_loop(Sub(Sub(code, none, null), badges, nothing), 3)
  IN Sub(Sub(Sub(decoded, commas, comma), paren, close_paren), bracket, close_bracket)

-----------------------------------------------------------------------------
(* Property processing *)

\* json.loads of a default value; ok is FALSE when it raises
json_loads(text) ==
  IF Len(text) = 1 /\ text[1] \in Numerals THEN [ok |-> TRUE, value |-> IntV(text[1])]
  ELSE IF Len(text) = 3 /\ text[1] \in Numerals /\ text[2] = "." /\ text[3] \in Numerals
    THEN [ok |-> TRUE, value |-> Float(text)]
  ELSE IF text = <<"true">> THEN [ok |-> TRUE, value |-> True]
  ELSE IF text = <<"false">> THEN [ok |-> TRUE, value |-> False]
  ELSE IF text = <<"null">> THEN [ok |-> TRUE, value |-> None]
  ELSE IF Len(text) >= 2 /\ text[1] = DQ /\ text[Len(text)] = DQ
          /\ ~In(DQ, SubSeq(text, 2, Len(text) - 1)) /\ ~In("\\", text)
    THEN [ok |-> TRUE, value |-> Str(SubSeq(text, 2, Len(text) - 1))]
  ELSE [ok |-> FALSE, value |-> None]

NoneList == List(<<W("None")>>)

\* the cleaning loop of _process_properties
RECURSIVE clean_properties(_)
clean_properties(m) ==
  IF m = <<>> THEN <<>>
  ELSE (IF m[1][2] = None \/ m[1][2] = W("None") \/ m[1][2] = NoneList THEN <<>> ELSE <<m[1]>>)
       \o clean_properties(Tail(m))

\* words of the model that hold an upper-case letter, and those whose first character
\* is not a lower-case letter
UpperWords == {"Hi", "Hello", "Text", "Bold", "SpaceEvenly", "CENTER", "Center", "Red", "None",
               "Ellipsis", "0xFF00FF00", "0xFF112233", "FF0000", "Icons", "Colors"}
NotLowerInitial == UpperWords \cup Numerals

islower(s) ==
  /\ \A i \in 1..Len(s) : s[i] \notin UpperWords
  /\ \E i \in 1..Len(s) : IsWord(s[i]) /\ s[i] \notin Numerals
first_islower(s) == IsWord(s[1]) /\ s[1] \notin NotLowerInitial

Processed(name, value, type, is_required) ==
  [name |-> name, value |-> value, type |-> type, is_required |-> is_required]

\* the keyword arguments _process_properties builds for a property definition
handler_kwargs(prop_def) ==
  IF prop_def.property_type = "enum"
  THEN CASE prop_def.name = K("mainAxisAlignment") ->
              EnumKwargs(K("MainAxisAlignment"), common_enums["MainAxisAlignment"])
         [] prop_def.name = K("crossAxisAlignment") ->
              EnumKwargs(K("CrossAxisAlignment"), common_enums["CrossAxisAlignment"])
         [] prop_def.name = K("textAlign") -> EnumKwargs(K("TextAlign"), common_enums["TextAlign"])
         [] prop_def.name = K("fit") -> EnumKwargs(K("BoxFit"), common_enums["BoxFit"])
         [] OTHER ->
              IF Truthy(prop_def.allowed_values)
              THEN LET values == Get(prop_def.allowed_values, K("values"), List(<<>>))
                   IN EnumKwargs(Split(prop_def.dart_type, ".")[1],
                                 [i \in 1..Len(values.m) |-> values.m[i][2].s[1]])
              ELSE NoKwargs
  ELSE IF prop_def.property_type \in {"widget", "widget_list"} THEN GeneratorKwargs
  ELSE NoKwargs

\* a resolution that takes a falsy explicit value for a missing one
resolve_truthy(prop_def, raw_properties) ==
  IF Truthy(Get(raw_properties, prop_def.name, None))
    THEN _decode_html_deeply(Get(raw_properties, prop_def.name, None))
  ELSE IF prop_def.default_value # E
    THEN IF json_loads(prop_def.default_value).ok THEN json_loads(prop_def.default_value).value
         ELSE Str(prop_def.default_value)
  ELSE None

\* the raw value a declared property is processed with
resolve(prop_def, raw_properties) ==
  IF Has(raw_properties, prop_def.name)
    THEN _decode_html_deeply(Get(raw_properties, prop_def.name, None))
  ELSE IF prop_def.default_value # E
    THEN IF json_loads(prop_def.default_value).ok THEN json_loads(prop_def.default_value).value
         ELSE Str(prop_def.default_value)
  ELSE None

\* the results of one iteration of the loop over property_defs: skip is TRUE when
\* nothing is appended
Skipped == [x |-> FALSE, skip |-> TRUE, v |-> {}, entry |-> None]
Raised(v) == [x |-> TRUE, skip |-> TRUE, v |-> v, entry |-> None]

\* text that looks like Python dict syntax becomes "null"
no_dict_text(dart_value, text) ==
  IF StartsWith(text, <<"{">>) /\ EndsWith(text, <<"}">>) /\ In(":", text)
  THEN Str(<<"null">>) ELSE dart_value
no_dict_syntax(dart_value) == no_dict_text(dart_value, PyStr(dart_value))

\* the checks of _process_properties on the value a handler returned: a raw dict,
\* and text that looks like Python dict syntax, become "null"
checked_value(prop_def, prop_value, dart_value) ==
  no_dict_syntax(IF IsDict(dart_value)
                 THEN IF prop_def.name = K("padding")
                        THEN EdgeInsetsPropertyHandler_transform(prop_value).r
                      ELSE IF prop_def.name = K("decoration")
                              /\ Truthy(prop_value) /\ Get(prop_value, K("gradient"), None) # None
                        THEN Str(<<"BoxDecoration", "(", ")">>)
                      ELSE Str(<<"null">>)
                 ELSE dart_value)

\* processed.append({...}) once handler.transform(prop_value) has returned or raised
append_processed(prop_def, prop_value, transformed) ==
  IF transformed.x THEN Raised(transformed.v)
  ELSE [x |-> FALSE, skip |-> FALSE, v |-> transformed.v,
        entry |-> Processed(prop_def.name, checked_value(prop_def, prop_value, transformed.r),
                            prop_def.property_type, prop_def.is_required)]

\* dart_value = handler.transform(prop_value)
with_value(prop_def, handler, prop_value) ==
  append_processed(prop_def, prop_value, transform(handler, prop_value))

\* validate, then transform: an invalid value of a required property becomes None
with_handler(prop_def, prop_value, made) ==
  IF made.x THEN Raised({})
  ELSE with_value(prop_def, made.handler,
                  IF ~validate(made.handler, prop_value) /\ prop_def.is_required THEN None
                  ELSE prop_value)

\* the iteration from "Skip non-required null properties" on
process_value(prop_def, prop_value) ==
  IF prop_value = None /\ ~prop_def.is_required THEN Skipped
  ELSE with_handler(prop_def, prop_value,
                    get_handler(prop_def.property_type, handler_kwargs(prop_def)))

\* one iteration of the loop over property_defs
process_property(prop_def, raw_properties) ==
  \* if prop_value is None or prop_value == "None": continue
  IF Has(raw_properties, prop_def.name)
     /\ Get(raw_properties, prop_def.name, None) \in {None, W("None")}
    THEN Skipped
  ELSE process_value(prop_def, resolve(prop_def, raw_properties))

RECURSIVE _handle_unknown_property(_, _), unknown_items(_, _, _, _), unknown_item(_, _, _, _, _)
\* returns [x, r, v] with r a string or None
_handle_unknown_property(name, value) ==
  CASE value = None -> Ok(None, {})
    [] IsBool(value) -> BoolPropertyHandler_transform(value)
    [] value.k = "int" -> NumberPropertyHandler_transform(FALSE, value)
    [] value.k = "float" -> NumberPropertyHandler_transform(TRUE, value)
    [] IsStr(value) ->
         IF StartsWith(value.s, <<"#">>) \/ (value.s # E /\ value.s[1] \in HexWords)
            \/ value.s \in {K("red"), K("blue"), K("green")}
           THEN ColorPropertyHandler_transform(value)
         ELSE IF In(SP, value.s) THEN StringPropertyHandler_transform(value)
         ELSE IF islower(value.s) THEN
           (IF name = K("mainAxisAlignment") THEN OkT(<<"MainAxisAlignment", ".">> \o value.s)
            ELSE IF name = K("crossAxisAlignment")
              THEN OkT(<<"CrossAxisAlignment", ".">> \o value.s)
            ELSE StringPropertyHandler_transform(value))
         \* value[0] of the empty string raises IndexError
         ELSE IF value.s = E THEN Raise({})
         ELSE IF first_islower(value.s) THEN
           (IF name = K("mainAxisAlignment") THEN OkT(<<"MainAxisAlignment", ".">> \o value.s)
            ELSE IF name = K("crossAxisAlignment")
              THEN OkT(<<"CrossAxisAlignment", ".">> \o value.s)
            ELSE StringPropertyHandler_transform(value))
         ELSE StringPropertyHandler_transform(value)
    [] IsDict(value) ->
         IF Has(value, K("type")) THEN generate_widget(value)
         ELSE IF name = K("padding") \/ name = K("margin")
           THEN EdgeInsetsPropertyHandler_transform(value)
         ELSE IF name = K("decoration")
           THEN IF ~Truthy(value) \/ \A i \in 1..Len(value.m) : value.m[i][2] = None
                THEN OkT(<<"null">>) ELSE OkT(<<"BoxDecoration", "(", ")">>)
         ELSE OkT(<<"null">>)
    [] OTHER ->
         \* a list
         IF value.m # <<>> /\ IsDict(value.m[1][2]) /\ Has(value.m[1][2], K("type"))
         THEN transform(get_handler("widget_list", GeneratorKwargs).handler, value)
         ELSE unknown_items(name, value.m, <<>>, {})
\* the generic-list loop, each item handled under the name f"{name}_item": item_dart
\* is kept when it is truthy
unknown_items(name, m, items, v) ==
  IF m = <<>> THEN Ok(Str(<<"[">> \o Join(items, <<",", SP>>) \o <<"]">>), v)
  ELSE unknown_item(name, m, items, v, _handle_unknown_property(name \o <<"_item">>, m[1][2]))
\* if item_dart: items.append(item_dart), and the rest of the loop
unknown_item(name, m, items, v, item_dart) ==
  IF item_dart.x THEN Raise(v \cup item_dart.v)
  ELSE unknown_items(name, Tail(m),
                     IF Truthy(item_dart.r) THEN Append(items, item_dart.r.s) ELSE items,
                     v \cup item_dart.v)

\* the two loops of _process_properties; returns [x, list, v]
RECURSIVE declared_loop(_, _, _, _), declared_step(_, _, _, _, _)
RECURSIVE extra_loop(_, _, _, _), extra_step(_, _, _, _, _)
\* for prop_def in property_defs
declared_loop(property_defs, raw_properties, processed, v) ==
  IF property_defs = <<>> THEN [x |-> FALSE, list |-> processed, v |-> v]
  ELSE declared_step(property_defs, raw_properties, processed, v,
                     process_property(property_defs[1], raw_properties))
declared_step(property_defs, raw_properties, processed, v, step) ==
  IF step.x THEN [x |-> TRUE, list |-> <<>>, v |-> v \cup step.v]
  ELSE declared_loop(Tail(property_defs), raw_properties,
                     IF step.skip THEN processed ELSE Append(processed, step.entry),
                     v \cup step.v)
\* for prop_name, prop_value in raw_properties.items()
extra_loop(m, defined_props, processed, v) ==
  IF m = <<>> THEN [x |-> FALSE, list |-> processed, v |-> v]
  ELSE IF m[1][1] \in defined_props \/ m[1][1] \in {K("items"), K("options")}
    THEN extra_loop(Tail(m), defined_props, processed, v)
  ELSE extra_step(m, defined_props, processed, v, _handle_unknown_property(m[1][1], m[1][2]))
extra_step(m, defined_props, processed, v, dart_value) ==
  IF dart_value.x THEN [x |-> TRUE, list |-> <<>>, v |-> v \cup dart_value.v]
  ELSE extra_loop(Tail(m), defined_props,
                  IF Truthy(dart_value.r)
                  THEN Append(processed, Processed(m[1][1], dart_value.r, "unknown", FALSE))
                  ELSE processed,
                  v \cup dart_value.v)

\* the second loop of _process_properties, over the names the schema does not declare
undeclared(property_defs, raw_properties, declared) ==
  IF declared.x THEN declared
  ELSE extra_loop(raw_properties.m, {property_defs[i].name : i \in 1..Len(property_defs)},
                  declared.list, declared.v)

\* a processing that walks the undeclared names before the declared properties
undeclared_first(property_defs, raw_properties) ==
  LET extra == extra_loop(raw_properties.m,
                          {property_defs[i].name : i \in 1..Len(property_defs)}, <<>>, {})
  IN IF extra.x THEN extra
     ELSE declared_loop(property_defs, raw_properties, extra.list, extra.v)

\* _process_properties once raw_properties is cleaned
process_cleaned(property_defs, raw_properties) ==
  undeclared(property_defs, raw_properties,
             declared_loop(property_defs, raw_properties, <<>>, {}))

_process_properties(widget_type, raw_properties0) ==
  IF widget_type.name = K("Text")
    THEN [x |-> FALSE, list |-> <<>>, v |-> {}]
  \* not a dict: "in" or the indexing raises TypeError, or .items() AttributeError
  ELSE IF ~IsDict(raw_properties0) THEN [x |-> TRUE, list |-> <<>>, v |-> {}]
  ELSE process_cleaned(properties_all(widget_type), Dict(clean_properties(raw_properties0.m)))

-----------------------------------------------------------------------------
(* Children, the special renderers and generate_widget *)

\* the loop of _process_children; returns [x, list, v]
RECURSIVE children_loop(_, _, _), append_child(_, _, _, _)
children_loop(m, children, v) ==
  IF m = <<>> THEN [x |-> FALSE, list |-> children, v |-> v]
  ELSE IF IsDict(m[1][2]) THEN append_child(m, children, v, generate_widget(m[1][2]))
  ELSE IF IsStr(m[1][2]) THEN children_loop(Tail(m), Append(children, m[1][2].s), v)
  ELSE children_loop(Tail(m), children, v)
\* children.append(child_code), and the rest of the loop
append_child(m, children, v, child_code) ==
  IF child_code.x THEN [x |-> TRUE, list |-> <<>>, v |-> v \cup child_code.v]
  ELSE children_loop(Tail(m), Append(children, child_code.r.s), v \cup child_code.v)

_process_children(children_data) ==
  IF ~Truthy(children_data) \/ children_data = W("None") \/ children_data = NoneList
     \/ ~IsList(children_data)
  THEN [x |-> FALSE, list |-> <<>>, v |-> {}]
  ELSE children_loop(children_data.m, <<>>, {})

\* str(value).lower() of a Python boolean or a word of the model
LowerText(s) == IF s = <<"True">> THEN <<"true">> ELSE IF s = <<"False">> THEN <<"false">>
                ELSE lower_str(s)

\* the loop over items in _generate_carousel_slider; iterating a dict yields its keys,
\* iterating a string its characters (one per lexeme for the strings of the model)
RECURSIVE carousel_items(_, _, _), append_item_code(_, _, _, _)
carousel_items(m, items_code, v) ==
  IF m = <<>> THEN [x |-> FALSE, list |-> items_code, v |-> v]
  ELSE IF IsDict(m[1][2]) THEN append_item_code(m, items_code, v, generate_widget(m[1][2]))
  ELSE carousel_items(Tail(m), Append(items_code, <<"Container", "(", ")">>), v)
\* items_code.append(item_code), and the rest of the loop
append_item_code(m, items_code, v, item_code) ==
  IF item_code.x THEN [x |-> TRUE, list |-> <<>>, v |-> v \cup item_code.v]
  ELSE carousel_items(Tail(m), Append(items_code, item_code.r.s), v \cup item_code.v)

\* the items of a carousel as the for loop iterates them
iterated(items) ==
  IF IsList(items) THEN items.m
  ELSE IF IsDict(items) THEN [i \in 1..Len(items.m) |-> <<E, Str(items.m[i][1])>>]
  ELSE [i \in 1..Len(items.s) |-> <<E, W(items.s[i])>>]

\* option_props of _generate_carousel_slider
option_props(options) ==
  LET opt(key) == Get(options, K(key), None)
      interval == opt("autoPlayInterval")
      given ==
        IF IsDict(options)
        THEN (IF Has(options, K("height"))
              THEN << <<"height", ":", SP>> \o dot0(opt("height")) >> ELSE <<>>)
             \o (IF Has(options, K("autoPlay"))
                 THEN << <<"autoPlay", ":", SP>> \o LowerText(PyStr(opt("autoPlay"))) >>
                 ELSE <<>>)
             \o (IF Has(options, K("autoPlayInterval")) /\ IsNumber(interval)
                 THEN << <<"autoPlayInterval", ":", SP, "Duration", "(", "milliseconds", ":", SP>>
                         \o int_str(interval) \o <<")">> >>
                 ELSE <<>>)
             \o (IF Has(options, K("viewportFraction"))
                 THEN << <<"viewportFraction", ":", SP>> \o PyStr(opt("viewportFraction")) >>
                 ELSE <<>>)
             \o (IF Has(options, K("enlargeCenterPage"))
                 THEN << <<"enlargeCenterPage", ":", SP>>
                         \o LowerText(PyStr(opt("enlargeCenterPage"))) >>
                 ELSE <<>>)
        ELSE <<>>
  \* any('height' in prop for prop in option_props): a substring test on each option
  IN IF \E i \in 1..Len(given) : In("height", given[i]) THEN given
     ELSE Append(given, <<"height", ":", SP, "200", ".", "0">>)

\* the code _generate_carousel_slider builds once its items are rendered
carousel_code(props, rendered) ==
  IF rendered.x THEN Raise(rendered.v)
  ELSE Ok(Str(<<"CarouselSlider", "(", NL, SP, SP, "options", ":", SP, "CarouselOptions", "(">>
              \o Join(option_props(Get(props, K("options"), EmptyDict)), <<",", SP>>)
              \o <<")", ",", NL, SP, SP, "items", ":", SP, "[", NL, SP, SP, SP, SP>>
              \o Join(IF rendered.list = <<>>
                      THEN << <<"Container", "(", "color", ":", SP, "Colors", ".", "grey", ",",
                                SP, "child", ":", SP, "Center", "(", "child", ":", SP, "Text",
                                "(", SQ, "Slide", SP, "1", SQ, ")", ")", ")">> >>
                      ELSE rendered.list,
                      <<",", NL, SP, SP, SP, SP>>)
              \o <<NL, SP, SP, "]", ",", NL, ")">>), rendered.v)

\* _generate_carousel_slider from "items = props.get('items', [])" on
carousel_of(props, items) ==
  \* for item in items: None and numbers are not iterable
  IF items.k \in {"none", "int", "bool", "float"} THEN Raise({})
  ELSE carousel_code(props, carousel_items(iterated(items), <<>>, {}))

_generate_carousel_slider(component_data) ==
  IF ~IsDict(Get(component_data, K("properties"), EmptyDict)) THEN Raise({})
  ELSE carousel_of(Get(component_data, K("properties"), EmptyDict),
                   Get(Get(component_data, K("properties"), EmptyDict), K("items"), List(<<>>)))

\* the IconButton branch of _generate_button_widget
icon_button(onPressed, icon_code) ==
  IF icon_code.x THEN Raise(icon_code.v)
  ELSE Ok(Str(<<"IconButton", "(", "icon", ":", SP>> \o icon_code.r.s
              \o <<",", SP, "onPressed", ":", SP>> \o onPressed \o <<")">>), icon_code.v)

\* the FloatingActionButton branch of _generate_button_widget
floating_action_button(props, onPressed, child_code) ==
  IF child_code.x THEN Raise(child_code.v)
  ELSE Ok(Str(<<"FloatingActionButton", "(">>
              \o Join(<< <<"onPressed", ":", SP>> \o onPressed,
                         <<"child", ":", SP>> \o child_code.r.s >>
                      \o (IF Has(props, K("backgroundColor"))
                          THEN << <<"backgroundColor", ":", SP>>
                                  \o ColorPropertyHandler_transform(
                                       Get(props, K("backgroundColor"), None)).r.s >>
                          ELSE <<>>),
                      <<",", SP>>)
              \o <<")">>), child_code.v)

\* _generate_button_widget once props holds an onPressed
button_of(component_data, props) ==
  LET widget_type_name == Get(component_data, K("type"), None)
      onPressed == PyStr(Get(props, K("onPressed"), None))
      icon_props == Get(props, K("icon"), EmptyDict)
      child_props == Get(props, K("child"), EmptyDict)
  IN
  IF widget_type_name = W("IconButton")
    THEN icon_button(onPressed, IF IsDict(icon_props) THEN generate_widget(icon_props)
                                ELSE OkT(<<"Icon", "(", "Icons", ".", "info", ")">>))
  ELSE IF widget_type_name = W("FloatingActionButton")
    THEN floating_action_button(props, onPressed,
                                IF IsDict(child_props) THEN generate_widget(child_props)
                                ELSE OkT(<<"Icon", "(", "Icons", ".", "add", ")">>))
  ELSE _generate_fallback_widget(component_data)

\* props['onPressed'] = '() {}' when the key is missing
with_onPressed(props0) ==
  IF Has(props0, K("onPressed")) THEN props0
  ELSE Dict(Append(props0.m, <<K("onPressed"), Str(<<"(", ")", SP, "{", "}">>)>>))

_generate_button_widget(component_data) ==
  \* props['onPressed'] = ... and props.get raise on anything but a dict
  IF ~IsDict(_decode_html_deeply(Get(component_data, K("properties"), EmptyDict)))
    THEN Raise({})
  ELSE button_of(component_data,
                 with_onPressed(_decode_html_deeply(
                                  Get(component_data, K("properties"), EmptyDict))))

Indent(n) == [i \in 1..n |-> SP]
Line(n, text) == <<NL>> \o Indent(n) \o text

\* the code _generate_badge_widget builds once child and badgeContent are rendered
badge_code(props, child_code, badge_content) ==
  IF child_code.x THEN Raise(child_code.v)
  ELSE IF badge_content.x THEN Raise(child_code.v \cup badge_content.v)
  ELSE Ok(Str(<<"Stack", "(">>
              \o Line(10, <<"clipBehavior", ":", SP, "Clip", ".", "none", ",">>)
              \o Line(10, <<"children", ":", SP, "[">>)
              \o Line(12, child_code.r.s \o <<",">>)
              \o Line(12, <<"Positioned", "(">>)
              \o Line(14, <<"right", ":", SP, "-", "8", ",">>)
              \o Line(14, <<"top", ":", SP, "-", "8", ",">>)
              \o Line(14, <<"child", ":", SP, "Container", "(">>)
              \o Line(16, <<"padding", ":", SP, "EdgeInsets", ".", "all", "(", "2", ")", ",">>)
              \o Line(16, <<"decoration", ":", SP, "BoxDecoration", "(">>)
              \o Line(18, <<"color", ":", SP>>
                          \o ColorPropertyHandler_transform(
                               Get(props, K("badgeColor"), W("red"))).r.s
                          \o <<",">>)
              \o Line(18, <<"borderRadius", ":", SP, "BorderRadius", ".", "circular", "(", "10",
                            ")", ",">>)
              \o Line(16, <<")", ",">>)
              \o Line(16, <<"constraints", ":", SP, "BoxConstraints", "(">>)
              \o Line(18, <<"minWidth", ":", SP, "20", ",">>)
              \o Line(18, <<"minHeight", ":", SP, "20", ",">>)
              \o Line(16, <<")", ",">>)
              \o Line(16, <<"child", ":", SP, "Center", "(">>)
              \o Line(18, <<"child", ":", SP>> \o badge_content.r.s \o <<",">>)
              \o Line(16, <<")", ",">>)
              \o Line(14, <<")", ",">>)
              \o Line(12, <<")", ",">>)
              \o Line(10, <<"]", ",">>)
              \o Line(8, <<")">>)), child_code.v \cup badge_content.v)

\* _generate_badge_widget on the decoded properties
badge_of(props) ==
  LET child_props == Get(props, K("child"), EmptyDict)
      badge_content == Get(props, K("badgeContent"), EmptyDict)
  IN
  IF ~IsDict(props) THEN Raise({})
  ELSE badge_code(props,
                  IF IsDict(child_props) THEN generate_widget(child_props)
                  ELSE OkT(<<"Container", "(", ")">>),
                  IF IsDict(badge_content) THEN generate_widget(badge_content)
                  ELSE OkT(<<"Text", "(", SQ, "0", SQ, ")">>))

_generate_badge_widget(component_data) ==
  badge_of(_decode_html_deeply(Get(component_data, K("properties"), EmptyDict)))

\* the body of the try block of generate_widget, on the decoded component data
\* the template path of generate_widget once properties and children are processed
render_processed(widget_type, component_data, processed_props, children) ==
  IF processed_props.x THEN Raise(processed_props.v)
  ELSE IF children.x THEN Raise(processed_props.v \cup children.v)
  ELSE Ok(Str(_validate_and_clean_output(
                _render_template(_get_template(widget_type, component_data), widget_type,
                                 processed_props.list, children.list).r.s)),
          processed_props.v \cup children.v)

\* generate_widget from "Special handling for known widgets" on
generate_known(widget_type_name, widget_type, component_data) ==
  IF widget_type_name = W("CarouselSlider") THEN _generate_carousel_slider(component_data)
  ELSE IF widget_type_name = W("Text") THEN _generate_text_widget(component_data)
  ELSE IF widget_type_name = W("Icon") THEN _generate_icon_widget(component_data)
  ELSE IF widget_type_name \in {W("IconButton"), W("FloatingActionButton")}
    THEN _generate_button_widget(component_data)
  ELSE IF widget_type_name = W("Badge") THEN _generate_badge_widget(component_data)
  ELSE render_processed(widget_type, component_data,
                        _process_properties(widget_type,
                                            Get(component_data, K("properties"), EmptyDict)),
                        IF widget_type.is_container
                        THEN _process_children(Get(component_data, K("children"), List(<<>>)))
                        ELSE [x |-> FALSE, list |-> <<>>, v |-> {}])

\* the widget types a result fetched, added to those its nested renderings fetched
fetching(fetched, result) == [result EXCEPT !.v = @ \cup fetched]

generate_widget_try(component_data) ==
  LET widget_type_name == Get(component_data, K("type"), None)
      cached == widget_type_name.s \in DOMAIN widget_cache
      found == IsStr(widget_type_name) /\ (cached \/ Exists(widget_type_name.s))
      widget_type == IF cached THEN widget_cache[widget_type_name.s]
                     ELSE Fields(Row(widget_type_name.s))
  IN
  \* component_data.get on a value that is not a dict
  IF ~IsDict(component_data) THEN Raise({})
  ELSE IF ~Truthy(widget_type_name) THEN _generate_fallback_widget(component_data)
  \* "in self.widget_cache" hashes the name
  ELSE IF widget_type_name.k \in {"dict", "list"} THEN Raise({})
  ELSE IF ~found THEN _generate_fallback_widget(component_data)
  ELSE fetching(IF cached THEN {} ELSE {widget_type_name.s},
                generate_known(widget_type_name, widget_type, component_data))

\* the except handler of generate_widget
or_fallback(component_data, body) ==
  IF body.x THEN [_generate_fallback_widget(component_data) EXCEPT !.v = body.v] ELSE body

\* generate_widget on the decoded component data
generate_decoded(component_data) ==
  or_fallback(component_data, generate_widget_try(component_data))

generate_widget(component_data0) == generate_decoded(_decode_html_deeply(component_data0))

-----------------------------------------------------------------------------
(* validate_component, and the generate_widget_code view (generator/views.py) *)

\* WidgetType.objects.get(name=...) of validate_component: no is_active filter
ExistsAny(name) == \E w \in WidgetTypes : w.name = name

\* "name in props": a key test on a dict, a membership test on a list, a substring
\* test on a string; TypeError on any other value
in_props(name, props) ==
  [x |-> props.k \notin {"dict", "list", "str"},
   r |-> IF IsDict(props) THEN Has(props, name)
         ELSE IF IsList(props) THEN \E i \in 1..Len(props.m) : props.m[i][2] = Str(name)
         ELSE Contains(props.s, name)]

Result(valid, errors, warnings) ==
  [x |-> FALSE, valid |-> valid, errors |-> errors, warnings |-> warnings]
Failed == [x |-> TRUE, valid |-> FALSE, errors |-> <<>>, warnings |-> <<>>]

\* for prop_def in required_props: a warning for each name missing from props
RECURSIVE required_loop(_, _, _)
required_loop(required_props, props, result) ==
  IF required_props = <<>> THEN result
  ELSE IF in_props(required_props[1].name, props).x THEN Failed
  ELSE required_loop(Tail(required_props), props,
         IF in_props(required_props[1].name, props).r THEN result
         ELSE [result EXCEPT !.warnings =
                 Append(@, <<"Required", SP, "property", SP, SQ>> \o required_props[1].name
                           \o <<SQ, SP, "is", SP, "missing">>)])

\* the check of one supplied value: get_handler is called without keyword arguments
checked(prop_def, value, made, result) ==
  IF made.x THEN Failed
  ELSE IF validate(made.handler, value) THEN result
  ELSE [result EXCEPT !.valid = FALSE,
                      !.errors = Append(@, <<"Invalid", SP, "value", SP, "for", SP, "property",
                                             SP, SQ>> \o prop_def.name \o <<SQ, ":", SP>>
                                           \o PyStr(value))]

\* for prop_def in widget_type.properties.all(): props[prop_def.name] raises TypeError
\* on a list or a string
RECURSIVE values_loop(_, _, _)
values_loop(property_defs, props, result) ==
  IF property_defs = <<>> \/ result.x THEN result
  ELSE IF in_props(property_defs[1].name, props).x THEN Failed
  ELSE IF ~in_props(property_defs[1].name, props).r
    THEN values_loop(Tail(property_defs), props, result)
  ELSE IF ~IsDict(props) THEN Failed
  ELSE values_loop(Tail(property_defs), props,
                   checked(property_defs[1], Get(props, property_defs[1].name, None),
                           get_handler(property_defs[1].property_type, NoKwargs), result))

\* validate_component from "Special validation for Text widget" on
validate_known(widget_type_name, props) ==
  LET property_defs == Row(widget_type_name.s).properties
      text_warning ==
        IF widget_type_name = W("Text")
           /\ ~Truthy(Get(props, K("data"), None)) /\ ~Truthy(Get(props, K("text"), None))
        THEN << <<"Text", SP, "widget", SP, "should", SP, "have", SP, SQ, "data", SQ, SP, "or",
                  SP, SQ, "text", SQ, SP, "property">> >>
        ELSE <<>>
  IN \* props.get on a value that is not a dict
     IF widget_type_name = W("Text") /\ ~IsDict(props) THEN Failed
     ELSE values_loop(property_defs, props,
                      required_loop(SelectSeq(property_defs, LAMBDA prop_def : prop_def.is_required),
                                    props, Result(TRUE, <<>>, text_warning)))

\* returns [x, valid, errors, warnings]; x is an exception raised to the caller
validate_component(component_data) ==
  LET widget_type_name == Get(component_data, K("type"), None) IN
  IF ~IsDict(component_data) THEN Failed
  ELSE IF ~Truthy(widget_type_name)
    THEN Result(FALSE, << <<"Widget", SP, "type", SP, "is", SP, "required">> >>, <<>>)
  \* a name that is not a string is looked up by its text and not found
  ELSE IF ~IsStr(widget_type_name) \/ ~ExistsAny(widget_type_name.s)
    THEN Result(TRUE, <<>>, << <<"Widget", SP, "type", SP, SQ>> \o PyStr(widget_type_name)
                               \o <<SQ, SP, "not", SP, "found", SP, "in", SP, "database">> >>)
  ELSE validate_known(widget_type_name, Get(component_data, K("properties"), EmptyDict))

\* the JSON responses of generate_widget_code
Response(status, success, code, errors, warnings) ==
  [status |-> status, success |-> success, code |-> code, errors |-> errors,
   warnings |-> warnings]
\* code = generator.generate_widget(data) and the response after it
generated(validation, code) ==
  IF code.x THEN Response(500, FALSE, None, <<>>, <<>>)
  ELSE Response(200, TRUE, code.r, <<>>, validation.warnings)
\* the view from "if not validation['valid']" on
validated(data, validation) ==
  IF validation.x THEN Response(500, FALSE, None, <<>>, <<>>)
  ELSE IF ~validation.valid
    THEN Response(400, FALSE, None, validation.errors, validation.warnings)
  ELSE generated(validation, generate_widget(data))
\* generate_widget_code on the parsed request body, with a generator of its own
generate_widget_code(data) == validated(data, validate_component(data))

-----------------------------------------------------------------------------
(* generate_imports *)

\* WidgetType.package (the name of the PubDevPackage row, E for none) and
\* WidgetType.import_path of the rows of the schema
package_name_of ==
  (K("CarouselSlider") :> K("carousel_slider")) @@ (K("Badge") :> K("badges"))
  @@ (K("Legacy") :> K("legacy_kit"))
import_path_of ==
  (K("Legacy") :> <<"package", ":", "legacy_kit", "/", "widgets", ".", "dart">>)
PackageOf(name) == IF name \in DOMAIN package_name_of THEN package_name_of[name] ELSE E
ImportPathOf(name) == IF name \in DOMAIN import_path_of THEN import_path_of[name] ELSE E

BaseImport ==
  <<"import", SP, SQ, "package", ":", "flutter", "/", "material", ".", "dart", SQ, ";">>
PackageImport(package_name) ==
  <<"import", SP, SQ, "package", ":">> \o package_name \o <<"/">> \o package_name
  \o <<".", "dart", SQ, ";">>

\* the import a widget type adds: none without a package, the import path when set
ImportsOfType(widget_type_name) ==
  IF ~IsStr(widget_type_name) \/ ~ExistsAny(widget_type_name.s) THEN {}
  ELSE IF PackageOf(widget_type_name.s) = E THEN {}
  ELSE IF ImportPathOf(widget_type_name.s) # E
    THEN {<<"import", SP, SQ>> \o ImportPathOf(widget_type_name.s) \o <<SQ, ";">>}
  ELSE {PackageImport(PackageOf(widget_type_name.s))}

\* the package names of the schema in the order of Python's string comparison; the
\* import lines of the model differ first in the package name
PackageOrder == <<K("badges"), K("carousel_slider"), K("flutter"), K("legacy_kit")>>
Rank(import) == CHOOSE i \in 1..Len(PackageOrder) : PackageOrder[i] = <<import[6]>>
\* sorted(list(imports))
RECURSIVE sorted(_)
sorted(imports) ==
  IF imports = {} THEN <<>>
  ELSE LET first == CHOOSE i \in imports : \A j \in imports : Rank(i) <= Rank(j)
       IN <<first>> \o sorted(imports \ {first})

\* returns [x, list]: the loop over components reads component.get('type') of each
\* top-level component and adds a truthy type name to a set
generate_imports(components) ==
  LET types == {Get(components[i], K("type"), None) : i \in 1..Len(components)}
      widget_types == {t \in types : Truthy(t)}
  IN IF \E i \in 1..Len(components) : ~IsDict(components[i])
       THEN [x |-> TRUE, list |-> <<>>]
     \* widget_types.add of a name that is not hashable
     ELSE IF \E t \in widget_types : t.k \in {"dict", "list"} THEN [x |-> TRUE, list |-> <<>>]
     ELSE [x |-> FALSE,
           list |-> sorted({BaseImport} \cup UNION {ImportsOfType(t) : t \in widget_types})]

-----------------------------------------------------------------------------
(* FlutterCodeGenerator (generator/utils.py): the pages of the dynamic components *)

\* a DynamicPageComponent row: widget_type is the name of the WidgetType row it refers
\* to, parent_component the id of its parent row (0 for none)
DynamicPageComponent(id, page_name, widget_type, properties, order, parent_component) ==
  [id |-> id, page_name |-> page_name, widget_type |-> widget_type,
   properties |-> properties, order |-> order, parent_component |-> parent_component]

\* component.properties or {}
or_empty(properties) == IF Truthy(properties) THEN properties ELSE EmptyDict

\* component.dynamicpagecomponent_set.all(): the rows whose parent is the component,
\* in the order of the query (Meta.ordering = ['order'])
dynamicpagecomponent_set(components, component) ==
  SelectSeq(components, LAMBDA child : child.parent_component = component.id)

\* the descriptor _generate_dynamic_widget builds for a component
component_data_of(components, component) ==
  LET children == dynamicpagecomponent_set(components, component)
      own == << <<K("type"), Str(component.widget_type)>>,
                <<K("properties"), or_empty(component.properties)>> >>
  IN IF Row(component.widget_type).is_container /\ children # <<>>
     THEN Dict(Append(own,
                      <<K("children"),
                        List([i \in 1..Len(children) |->
                                Dict(<< <<K("type"), Str(children[i].widget_type)>>,
                                        <<K("properties"),
                                          or_empty(children[i].properties)>> >>)])>>))
     ELSE Dict(own)

GreyContainer == <<"Container", "(", "color", ":", SP, "Colors", ".", "grey", ")">>

Slide(color, n) ==
  <<"Container", "(", "color", ":", SP, "Colors", ".", color, ",", SP, "child", ":",
    SP, "Center", "(", "child", ":", SP, "Text", "(", SQ, "Slide", SP, n, SQ, ",",
    SP, "style", ":", SP, "TextStyle", "(", "color", ":", SP, "Colors", ".", "white",
    ")", ")", ")", ")">>

\* the loop over items in _generate_alternative_carousel
RECURSIVE alternative_items(_, _, _), append_alternative(_, _, _, _)
alternative_items(m, items_code, v) ==
  IF m = <<>> THEN [x |-> FALSE, list |-> items_code, v |-> v]
  ELSE IF IsDict(m[1][2]) /\ Has(m[1][2], K("type"))
    THEN append_alternative(m, items_code, v, generate_widget(m[1][2]))
  ELSE alternative_items(Tail(m), Append(items_code, GreyContainer), v)
append_alternative(m, items_code, v, item_code) ==
  IF item_code.x THEN [x |-> TRUE, list |-> <<>>, v |-> v \cup item_code.v]
  ELSE alternative_items(Tail(m), Append(items_code, item_code.r.s), v \cup item_code.v)

\* the code _generate_alternative_carousel builds once its items are rendered
alternative_code(options, rendered) ==
  LET items_code == IF rendered.list = <<>>
                    THEN <<Slide("blue", "1"), Slide("red", "2"), Slide("green", "3")>>
                    ELSE rendered.list
  IN
  \* options.get on anything but a dict raises
  IF rendered.x \/ ~IsDict(options) THEN Raise(rendered.v)
  ELSE Ok(Str(<<"FlutterCarousel", "(", NL, SP, SP, "options", ":", SP, "CarouselOptions", "(", NL,
                SP, SP, SP, SP, "height", ":", SP>>
              \o PyStr(Get(options, K("height"), IntV("200")))
              \o <<".", "0", ",", NL, SP, SP, SP, SP, "showIndicator", ":", SP, "true", ",", NL, SP,
                   SP, SP, SP, "slideIndicator", ":", SP, "CircularSlideIndicator", "(", ")", ",", NL,
                   SP, SP, SP, SP, "autoPlay", ":", SP>>
              \o LowerText(PyStr(Get(options, K("autoPlay"), True)))
              \o <<",", NL, SP, SP, SP, SP, "autoPlayInterval", ":", SP, "Duration", "(",
                   "milliseconds", ":", SP>>
              \o PyStr(Get(options, K("autoPlayInterval"), IntV("3000")))
              \o <<")", ",", NL, SP, SP, ")", ",", NL, SP, SP, "items", ":", SP, "[", NL, SP, SP, SP,
                   SP>>
              \o Join([i \in 1..Len(items_code) |-> Indent(4) \o items_code[i] \o <<",">>], <<NL>>)
              \o <<NL, SP, SP, "]", ",", NL, ")">>), rendered.v)

_generate_alternative_carousel(component) ==
  LET props == or_empty(component.properties)
      items == Get(props, K("items"), List(<<>>))
  IN
  \* props.get raises on anything but a dict; None and numbers are not iterable
  IF ~IsDict(props) \/ items.k \in {"none", "int", "bool", "float"} THEN Raise({})
  ELSE alternative_code(Get(props, K("options"), EmptyDict),
                        alternative_items(iterated(items), <<>>, {}))

\* the text _generate_dynamic_widget returns for the result of its try block;
\* passed lists the descriptors it passed to generate_widget itself
dynamic_widget(result, passed) ==
  [code |-> IF result.x
            \* f"Container() // Error: {str(e)}": the message is one lexeme of the model
            THEN <<"Container", "(", ")", SP, "/", "/", SP, "Error", ":", SP, "exception">>
            ELSE PyStr(result.r),
   generated |-> passed, v |-> result.v]

_generate_dynamic_widget(components, component) ==
  IF component.widget_type = K("CarouselSlider")
  THEN dynamic_widget(_generate_alternative_carousel(component), <<>>)
  ELSE dynamic_widget(generate_widget(component_data_of(components, component)),
                      <<component_data_of(components, component)>>)

\* sorted(components, key=lambda x: x.order): stable
RECURSIVE sorted_by_order(_)
sorted_by_order(components) ==
  IF components = <<>> THEN <<>>
  ELSE LET i == CHOOSE j \in 1..Len(components) :
                  /\ \A l \in 1..Len(components) : components[j].order <= components[l].order
                  /\ \A l \in 1..(j - 1) : components[l].order # components[j].order
       IN <<components[i]>>
          \o sorted_by_order(SubSeq(components, 1, i - 1)
                             \o SubSeq(components, i + 1, Len(components)))

\* the body of a page for its widgets
body_content(widgets) ==
  IF Len(widgets) = 1 THEN widgets[1]
  ELSE <<"SingleChildScrollView", "(", NL, SP, SP, SP, SP, SP, SP, SP, SP, "child", ":", SP,
         "Column", "(", NL, SP, SP, SP, SP, SP, SP, SP, SP, SP, SP, "mainAxisAlignment",
         ":", SP, "MainAxisAlignment", ".", "start", ",", NL, SP, SP, SP, SP, SP, SP, SP,
         SP, SP, SP, "crossAxisAlignment", ":", SP, "CrossAxisAlignment", ".", "center",
         ",", NL, SP, SP, SP, SP, SP, SP, SP, SP, SP, SP, "children", ":", SP, "[", NL, SP,
         SP, SP, SP, SP, SP, SP, SP, SP, SP, SP, SP>>
       \o Join([i \in 1..Len(widgets) |-> Indent(12) \o widgets[i] \o <<",">>], <<NL>>)
       \o <<NL, SP, SP, SP, SP, SP, SP, SP, SP, SP, SP, "]", ",", NL, SP, SP, SP, SP, SP, SP,
            SP, SP, ")", ",", NL, SP, SP, SP, SP, SP, SP, ")">>

\* the class text _generate_page_class returns
page_class(page_name, body) ==
  <<NL, "class", SP>> \o page_name
  \o <<SP, "extends", SP, "StatelessWidget", SP, "{", NL, SP, SP, "@override", NL, SP, SP,
       "Widget", SP, "build", "(", "BuildContext", SP, "context", ")", SP, "{", NL, SP,
       SP, SP, SP, "return", SP, "Scaffold", "(", NL, SP, SP, SP, SP, SP, SP, "appBar",
       ":", SP, "AppBar", "(", NL, SP, SP, SP, SP, SP, SP, SP, SP, "title", ":", SP,
       "Text", "(", SQ>>
  \o page_name
  \o <<SQ, ")", ",", NL, SP, SP, SP, SP, SP, SP, SP, SP, "elevation", ":", SP, "2", ",",
       NL, SP, SP, SP, SP, SP, SP, ")", ",", NL, SP, SP, SP, SP, SP, SP, "body", ":", SP,
       "Padding", "(", NL, SP, SP, SP, SP, SP, SP, SP, SP, "padding", ":", SP,
       "EdgeInsets", ".", "all", "(", "16", ".", "0", ")", ",", NL, SP, SP, SP, SP, SP,
       SP, SP, SP, "child", ":", SP>>
  \o body
  \o <<",", NL, SP, SP, SP, SP, SP, SP, ")", ",", NL, SP, SP, SP, SP, ")", ";", NL, SP,
       SP, "}", NL, "}">>

\* the loop of _generate_page_class over the sorted components of a page; returns the
\* widgets, the ids of the components handed to _generate_dynamic_widget, the
\* descriptors handed to generate_widget and the types fetched
RECURSIVE page_widgets(_, _, _), append_widget(_, _, _, _)
page_widgets(all, todo, done) ==
  IF todo = <<>> THEN done
  ELSE append_widget(all, todo, done, _generate_dynamic_widget(all, todo[1]))
append_widget(all, todo, done, widget) ==
  page_widgets(all, Tail(todo),
               [widgets |-> IF widget.code # <<>> THEN Append(done.widgets, widget.code)
                            ELSE done.widgets,
                components |-> Append(done.components, todo[1].id),
                generated |-> done.generated \o widget.generated,
                v |-> done.v \cup widget.v])

\* the page _generate_page_class returns once its loop is done
page_of(page_name, done) ==
  [page_name |-> page_name,
   code |-> page_class(page_name,
                       body_content(IF done.widgets = <<>>
                                    THEN << <<"Center", "(", "child", ":", SP, "Text", "(",
                                              SQ, "No", SP, "widgets", SP, "configured", SQ,
                                              ")", ")">> >>
                                    ELSE done.widgets)),
   widgets |-> done.widgets, components |-> done.components,
   generated |-> done.generated, v |-> done.v]

\* _generate_page_class; all is the query result the children are taken from
_generate_page_class(all, page_name, components) ==
  page_of(page_name,
          page_widgets(all, sorted_by_order(components),
                       [widgets |-> <<>>, components |-> <<>>, generated |-> <<>>,
                        v |-> {}]))

\* components_by_page of _generate_dynamic_main_dart: the page names in the order of
\* their first component, each with its components in the order of the query
RECURSIVE page_names(_, _)
page_names(components, seen) ==
  IF components = <<>> THEN seen
  ELSE page_names(Tail(components),
                  IF \E i \in 1..Len(seen) : seen[i] = components[1].page_name THEN seen
                  ELSE Append(seen, components[1].page_name))
components_by_page(components) ==
  [i \in 1..Len(page_names(components, <<>>)) |->
     <<page_names(components, <<>>)[i],
       SelectSeq(components, LAMBDA c : c.page_name = page_names(components, <<>>)[i])>>]

\* the page classes, joined by a blank line in code
joined_pages(pages) ==
  [code |-> Join([i \in 1..Len(pages) |-> pages[i].code], <<NL, NL>>), pages |-> pages]

page_classes(components, by_page) ==
  [i \in 1..Len(by_page) |->
     _generate_page_class(components, by_page[i][1], by_page[i][2])]

\* _generate_pages on the components_by_page of the project's dynamic_components.all()
_generate_pages(components) ==
  joined_pages(page_classes(components, components_by_page(components)))

-----------------------------------------------------------------------------
(* FlutterAPKBuilder.build_apk (generator/apk_builder.py) *)

\* for attempt in range(3)
BuildAttempts == 3

\* subprocess.run: a completed process, or the exception that leaves the call (x is ""
\* when none does)
CompletedProcess(returncode, stdout, stderr) ==
  [x |-> "", returncode |-> returncode, stdout |-> stdout, stderr |-> stderr]
Raises(x) == [x |-> x, returncode |-> -1, stdout |-> E, stderr |-> E]

\* the frame of a call of build_apk: the statement it is at, whether a progress_callback
\* was passed, the locals of the retry loop, the flutter build apk commands it has run
\* with their outcomes, the percentages it has reported, and the value it returns
BuildFrame(project, progress_callback) ==
  [pc |-> "check", project |-> project, progress_callback |-> progress_callback,
   attempt |-> 0, build_success |-> FALSE, last_error |-> E, build_output |-> E,
   commands |-> <<>>, reported |-> <<>>, result |-> None]

\* if progress_callback: progress_callback(message, percentage)
report(f, percentage) ==
  IF f.progress_callback THEN [f EXCEPT !.reported = Append(@, percentage)] ELSE f

\* return {'success': False, 'error': ..., 'apk_path': None}
build_failed(f, error) ==
  [f EXCEPT !.pc = "return",
            !.result = [success |-> FALSE, error |-> Str(error), apk_path |-> None]]
\* except subprocess.TimeoutExpired / except Exception as e
build_raised(f, x) ==
  build_failed(f, IF x = "TimeoutExpired"
                  THEN <<"Build", SP, "process", SP, "timed", SP, "out", ".">>
                  ELSE <<"Unexpected", SP, "error", SP, "during", SP, "build", ":", SP, x>>)

\* os.path.join(self.builds_dir, f'{project_name}_{timestamp}.apk')
apk_destination(project) ==
  <<"apk_builds", "/", project, "_", "timestamp", ".", "apk">>

\* clear_gradle_cache, setup_java21_environment and check_flutter_installation
check_flutter(f, flutter_ok, flutter_msg) ==
  IF ~flutter_ok
  THEN build_failed(report(f, 5),
                    <<"Flutter", SP, "SDK", SP, "not", SP, "available", ":", SP>>
                      \o flutter_msg)
  ELSE [report(report(f, 5), 10) EXCEPT !.pc = "create"]

\* create_flutter_project_files in the temporary directory
create_project(f, x) ==
  IF x # "" THEN build_raised(report(f, 20), x)
  ELSE [report(report(f, 20), 30) EXCEPT !.pc = "pub"]

\* flutter pub get
pub_get(f, pub_result) ==
  IF pub_result.x # "" THEN build_raised(f, pub_result.x)
  ELSE IF pub_result.returncode # 0
  THEN build_failed(f, <<"Flutter", SP, "pub", SP, "get", SP, "failed", ":", SP>>
                         \o pub_result.stderr)
  ELSE [report(f, 50) EXCEPT !.pc = "build"]

\* "503" in last_error or "IOException" in last_error
network_error(last_error) == In("503", last_error) \/ In("IOException", last_error)

\* the statements after the loop: if not build_success: return ...
after_attempts(f) ==
  IF ~f.build_success
  THEN build_failed(f, <<"APK", SP, "build", SP, "failed", ":", SP>> \o f.last_error)
  ELSE [report(f, 80) EXCEPT !.pc = "find"]

\* an iteration that retries after every failure
retry_any_failure(f, build_result) ==
  LET g == [report(f, 50 + f.attempt * 15) EXCEPT
              !.commands = Append(@, build_result)]
  IN IF build_result.x # "" THEN build_raised(g, build_result.x)
     ELSE IF build_result.returncode = 0
     THEN after_attempts([g EXCEPT !.build_success = TRUE,
                                   !.build_output = build_result.stdout])
     ELSE LET h == [g EXCEPT !.last_error = build_result.stderr] IN
          IF h.attempt + 1 < BuildAttempts
          THEN [report(h, 60) EXCEPT !.attempt = @ + 1]
          ELSE after_attempts([report(h, 60) EXCEPT !.attempt = @ + 1])

\* one iteration of the loop: flutter build apk --release is run and its result
\* decides between break, retry and the end of the range
build_attempt(f, build_result) ==
  LET g == [report(f, 50 + f.attempt * 15) EXCEPT
              !.commands = Append(@, build_result)]
  IN IF build_result.x # "" THEN build_raised(g, build_result.x)
     ELSE IF build_result.returncode = 0
     THEN after_attempts([g EXCEPT !.build_success = TRUE,
                                   !.build_output = build_result.stdout])
     ELSE LET h == [g EXCEPT !.last_error = build_result.stderr] IN
          IF network_error(h.last_error)
          THEN IF h.attempt + 1 < BuildAttempts
               THEN [report(h, 60) EXCEPT !.attempt = @ + 1]
               ELSE after_attempts([report(h, 60) EXCEPT !.attempt = @ + 1])
          ELSE after_attempts(h)

\* the wait for app-release.apk: if not os.path.exists(apk_source): return ...
find_apk(f, exists) ==
  IF ~exists
  THEN build_failed(f, <<"APK", SP, "file", SP, "not", SP, "found", SP, "after", SP,
                         "build">>)
  ELSE [f EXCEPT !.pc = "copy"]

\* the copy to the builds directory and the successful return
copy_apk(f, copy_success) ==
  IF ~copy_success
  THEN build_failed(f, <<"APK", SP, "was", SP, "built", SP, "successfully", SP, "but",
                         SP, "could", SP, "not", SP, "be", SP, "copied">>)
  ELSE [report(f, 100) EXCEPT
          !.pc = "return",
          !.result = [success |-> TRUE, error |-> None,
                      apk_path |-> Str(apk_destination(f.project)),
                      build_output |-> f.build_output]]

-----------------------------------------------------------------------------
(* FlutterProjectAdmin.build_apk and _build_apk_async (generator/admin.py), on the
   APKBuild table (generator/models.py) *)

\* APKBuild.objects.create(project=project, status=status): the other fields take
\* their defaults
APKBuild(project, status) ==
  [project |-> project, status |-> status, completed_at |-> None, apk_file_path |-> E,
   build_log |-> <<>>, error_message |-> E, file_size |-> None]

\* timezone.now()
now == Str(<<"now">>)

\* project.apk_builds.filter(status__in=['pending', 'building']): the ids of the rows
active_builds(table, project) ==
  {id \in 1..Len(table) :
     table[id].project = project /\ table[id].status \in {"pending", "building"}}
\* .first() under the ordering -created_at: the newest of them, 0 for None
first_active(table, project) ==
  IF active_builds(table, project) = {} THEN 0
  ELSE CHOOSE id \in active_builds(table, project) :
         \A other \in active_builds(table, project) : other <= id

\* apk_build.save(): the row takes the fields of the instance
save(table, id, instance) == [table EXCEPT ![id] = instance]

\* the except branch of _build_apk_async
failed_unexpectedly(apk_build, x) ==
  [apk_build EXCEPT !.status = "failed", !.error_message = <<x>>,
                    !.build_log = Append(@, "unexpected"), !.completed_at = now]

\* a recording that takes every result for a success
recorded_as_completed(apk_build, result, exists, x) ==
  [apk_build EXCEPT !.status = "completed",
                    !.apk_file_path = IF result.success THEN result.apk_path.s ELSE E,
                    !.build_log = Append(@, "completed"),
                    !.completed_at = now]

\* the statements of _build_apk_async after build_apk has returned, up to the save;
\* exists is os.path.exists(result['apk_path']), x the exception os.path.getsize raises
completed_build(apk_build, result, exists, x) ==
  IF result.success
  THEN LET completed == [apk_build EXCEPT !.status = "completed",
                                          !.apk_file_path = result.apk_path.s,
                                          !.build_log = Append(@, "completed")]
       IN IF exists /\ x # "" THEN failed_unexpectedly(completed, x)
          ELSE [completed EXCEPT !.file_size = IF exists THEN IntV("1") ELSE @,
                                 !.completed_at = now]
  ELSE [apk_build EXCEPT !.status = "failed", !.error_message = result.error.s,
                         !.build_log = Append(@, "failed"), !.completed_at = now]

\* progress_callback: the message is added to build_log and the instance is saved
progress_callback(apk_build, frame) ==
  [apk_build EXCEPT !.build_log = [i \in 1..Len(frame.reported) |->
                                     ToString(frame.reported[i])]]

-----------------------------------------------------------------------------
(* Inputs: component descriptors *)

D(m) == Dict(m)
P(key, value) == <<K(key), value>>
Widget(type, props) == D(<<P("type", W(type)), P("properties", props)>>)
Parent(type, props, children) ==
  D(<<P("type", W(type)), P("properties", props), P("children", List(children))>>)

\* a character reference entity-encoded n times: & amp; ... amp; ref (n >= 1)
RECURSIVE EncodedRef(_, _)
EncodedRef(ref, n) == IF n <= 1 THEN <<"&">> \o ref
                      ELSE <<"&", "amp", ";">> \o Tail(EncodedRef(ref, n - 1))
\* the text "<" entity-encoded n times
Encoded(n) == IF n = 0 THEN <<"<">> ELSE EncodedRef(<<"lt", ";">>, n)

RawMap == D(<<P("w", IntV("1"))>>)

TextProps ==
  { D(<<>>),
    D(<<P("data", W("Hi"))>>),
    D(<<P("text", W("Hello"))>>),
    D(<<P("data", Str(<<"it", SQ, "s">>))>>),
    D(<<P("data", IntV("8"))>>),
    D(<<P("data", Str(Encoded(2)))>>),
    D(<<P("data", W("Hi")), P("style", D(<<P("fontSize", IntV("16")), P("fontWeight", W("bold")),
                                           P("color", W("Red"))>>))>>),
    D(<<P("data", W("Hi")), P("style", D(<<P("fontWeight", IntV("300"))>>))>>),
    D(<<P("style", D(<<P("fontWeight", IntV("300"))>>))>>),
    D(<<P("data", W("Hi")), P("style", D(<<P("fontSize", RawMap)>>))>>),
    D(<<P("text", W("Hello")), P("fontSize", IntV("12"))>>) }

IconProps ==
  { D(<<>>),
    D(<<P("icon", W("home"))>>),
    D(<<P("icon", Str(<<"Icons", ".", "star">>)), P("size", IntV("24")), P("color", W("red"))>>),
    D(<<P("icon", W("home")), P("size", RawMap)>>),
    D(<<P("icon", IntV("3"))>>) }

SliderProps ==
  { D(<<>>),
    D(<<P("value", IntV("0"))>>),
    D(<<P("value", Float(<<"2", ".", "0">>)), P("label", W("Hi"))>>),
    D(<<P("value", IntV("1")), P("overflow", W("ellipsis"))>>),
    D(<<P("value", IntV("1")), P("mode", W("fast"))>>),
    D(<<P("value", IntV("1")), P("mode", W("turbo"))>>),
    D(<<P("value", W("None")), P("divisions", IntV("0"))>>),
    D(<<P("value", None), P("label", Str(E))>>),
    D(<<P("value", RawMap)>>),
    D(<<P("value", W("wide")), P("divisions", W("many"))>>),
    D(<<P("value", IntV("1")), P("active", False), P("ratio", Float(<<"2", ".", "0">>)),
        P("tint", Str(<<"#", "FF0000">>)), P("note", W("Hi"))>>),
    D(<<P("value", IntV("1")), P("padding", D(<<P("all", IntV("8"))>>)),
        P("thumb", D(<<P("type", W("Icon"))>>)), P("meta", RawMap)>>) }

ImageProps ==
  { D(<<>>),
    D(<<P("semanticLabel", W("Hello"))>>),
    D(<<P("fit", W("Center")), P("width", IntV("100"))>>),
    D(<<P("fit", W("stretchy")), P("semanticLabel", IntV("3"))>>) }

UnknownProps ==
  { D(<<P("foo", W("bar"))>>),
    D(<<P("foo", W("bar")), P("n", IntV("3")), P("flag", True),
        P("nested", D(<<P("type", W("Text"))>>)), P("list", List(<<IntV("1")>>)),
        P("ratio", Float(<<"2", ".", "0">>))>>),
    D(<<>>) }

\* values of "properties" that are not a map
NotMaps == {None, List(<<>>), W("Hi")}

Leaves ==
  {Widget("Text", p) : p \in TextProps \cup NotMaps}
  \cup {Widget("Icon", p) : p \in IconProps \cup {None}}
  \cup {Widget("Slider", p) : p \in SliderProps \cup {None}}
  \cup {Widget("Image", p) : p \in ImageProps}
  \cup {Widget("UnknownWidgetXYZ", p) : p \in UnknownProps \cup NotMaps}
  \cup {Widget("Legacy", p) : p \in UnknownProps}
  \cup { D(<<>>),
         D(<<P("properties", D(<<P("foo", W("bar"))>>))>>),
         D(<<P("properties", None)>>),
         D(<<P("type", Str(E)), P("properties", D(<<P("foo", W("bar"))>>))>>),
         D(<<P("type", None)>>),
         D(<<P("type", RawMap), P("properties", D(<<P("foo", W("bar"))>>))>>),
         D(<<P("type", IntV("3"))>>),
         D(<<P("type", Str(<<"&", "amp", ";", "lt", ";">>))>>),
         D(<<P("type", W("Text"))>>),
         None, List(<<>>), W("Text") }

MaxChildren == 2

TextA == Widget("Text", D(<<P("data", W("A"))>>))
TextB == Widget("Text", D(<<P("data", W("B"))>>))
IconHome == Widget("Icon", D(<<P("icon", W("home"))>>))

\* child descriptors: three well-formed ones, an unknown type, a null properties value
ChildPool == {TextA, TextB, IconHome, Widget("UnknownWidgetXYZ", D(<<P("n", IntV("3"))>>)),
              Widget("Text", None)}

ChildLists == UNION {[1..n -> ChildPool] : n \in 0..MaxChildren}

Containers ==
  {Parent("Column", p, c) : p \in {D(<<>>), D(<<P("mainAxisAlignment", W("center"))>>)},
                            c \in ChildLists}
  \cup {Parent("Container", D(<<>>), c) : c \in ChildLists}
  \cup { Parent("Column", D(<<P("foo", Str(E))>>), <<TextA>>),
         Parent("Column", D(<<P("crossAxisAlignment", W("Stretch")), P("spacing", IntV("8"))>>),
                <<TextA, TextB>>),
         Parent("Column", D(<<>>), <<Parent("Column", D(<<>>), <<TextA>>), TextB>>),
         Parent("Column", D(<<>>), <<TextA, Str(<<"Spacer", "(", ")">>), IntV("3"), None>>),
         Parent("Column", D(<<>>), <<D(<<>>)>>),
         Parent("Container", D(<<P("color", W("red")), P("height", IntV("40")),
                                 P("padding", D(<<P("all", IntV("8"))>>))>>), <<TextA>>),
         Parent("Container", D(<<P("padding", IntV("8")), P("height", RawMap)>>), <<>>),
         Parent("Slider", D(<<P("value", IntV("1"))>>), <<TextA>>),
         D(<<P("type", W("Column")), P("children", W("None"))>>),
         D(<<P("type", W("Column")), P("children", None)>>),
         D(<<P("type", W("Column")), P("children", List(<<W("None")>>))>>),
         D(<<P("type", W("Column")), P("children", D(<<P("type", W("Text"))>>))>>) }

\* descriptors of the types that have stored templates
Templated ==
  {D(<<P("type", W(type)), P("style", W(style)), P("properties", p)>>) :
     type \in {"ElevatedButton", "Card", "ListTile"}, style \in {"fancy", "plain"},
     p \in {D(<<>>), D(<<P("variant", W("broken"))>>), D(<<P("elevated", True)>>)}}
  \cup { Widget("ElevatedButton", D(<<>>)),
         Widget("ElevatedButton", D(<<P("onPressed", Str(<<"(", ")", SP, "{", "}">>))>>)),
         Widget("ElevatedButton", D(<<P("variant", IntV("1"))>>)),
         Parent("ElevatedButton", D(<<P("variant", W("broken")),
                                      P("onPressed", Str(<<"(", ")", SP, "{", "}">>))>>),
                <<TextA>>),
         Parent("Card", D(<<P("elevation", IntV("2"))>>), <<TextA>>),
         D(<<P("type", W("Card")), P("variant", W("outlined")), P("style", W("plain")),
             P("properties", D(<<P("elevated", IntV("1"))>>))>>),
         Widget("ListTile", D(<<P("dense", True)>>)) }

\* descriptors of the types generate_widget renders by special-case code
Specials ==
  {Widget("CarouselSlider", p) :
     p \in { D(<<>>),
             D(<<P("items", List(<<TextA, TextB>>))>>),
             D(<<P("items", List(<<TextA, W("x")>>)),
                 P("options", D(<<P("height", IntV("300")), P("autoPlay", True)>>))>>),
             D(<<P("options", D(<<P("height", RawMap)>>))>>),
             D(<<P("options", D(<<P("autoPlay", False), P("autoPlayInterval", IntV("3")),
                                  P("viewportFraction", Float(<<"0", ".", "8">>))>>))>>),
             D(<<P("options", D(<<P("autoPlay", W("height")), P("enlargeCenterPage", True)>>))>>),
             D(<<P("items", IntV("3"))>>),
             D(<<P("items", List(<<Widget("Text", None)>>))>>),
             None }}
  \cup { Parent("CarouselSlider", D(<<>>), <<TextA, TextB>>) }
  \cup {Widget(type, p) :
          type \in {"IconButton", "FloatingActionButton"},
          p \in { D(<<>>),
                  D(<<P("icon", IconHome), P("child", TextA),
                      P("onPressed", Str(<<"(", ")", SP, "{", "}">>))>>),
                  D(<<P("icon", W("home")), P("child", W("add")),
                      P("backgroundColor", W("blue"))>>),
                  D(<<P("onPressed", None), P("icon", Widget("Text", None))>>),
                  D(<<P("icon", Widget("Text", None)), P("child", Widget("Text", None))>>),
                  None }}
  \cup {Widget("Badge", p) :
          p \in { D(<<>>),
                  D(<<P("child", IconHome), P("badgeContent", TextA), P("badgeColor", W("green"))>>),
                  D(<<P("child", W("x")), P("badgeContent", IntV("3"))>>),
                  D(<<P("badgeColor", RawMap)>>),
                  None }}

Descriptors == Leaves \cup Containers \cup Templated \cup Specials

-----------------------------------------------------------------------------
(* The generator as a state machine *)

MaxCalls == 2

EmptyCache == [n \in {} |-> None]

Init ==
  /\ widget_cache = EmptyCache
  /\ calls = 0
  /\ apk_builds = <<>>
  /\ op = "init"
  /\ arg = None
  /\ ret = Ok(None, {})

\* the state after a call has returned or raised: the types it fetched are cached
Returned(component_data, result) ==
  /\ ret' = result
  /\ widget_cache' = [n \in DOMAIN widget_cache \cup result.v |->
                        IF n \in DOMAIN widget_cache THEN widget_cache[n]
                        ELSE Fields(Row(n))]
  /\ calls' = calls + 1
  /\ op' = "generate_widget"
  /\ UNCHANGED apk_builds
  /\ arg' = component_data

\* one call of generate_widget by the owner of the generator
Render(component_data) ==
  /\ calls < MaxCalls
  /\ Returned(component_data, generate_widget(component_data))

Next == \E d \in Descriptors : Render(d)

Spec == Init /\ [][Next]_vars

\* the first call of generate_widget on a new generator, on its own
RenderFirst(component_data) ==
  /\ calls = 0
  /\ Returned(component_data, generate_widget(component_data))

NextFirst == \E d \in Descriptors : RenderFirst(d)

SpecFirst == Init /\ [][NextFirst]_vars

-----------------------------------------------------------------------------
(* _decode_html_deeply on its own: a value is decoded, and the result decoded again *)

MaxDepth == 7
MaxDecodes == 2

\* character references: &lt; &quot; &#x27; and the legacy &gt that needs no semicolon
Refs == {<<"lt", ";">>, <<"quot", ";">>, <<"#", "x27", ";">>, <<"gt">>}

DecodeStrings ==
  {<<"a", SP>> \o EncodedRef(r, n) \o <<SP, "b">> : r \in Refs, n \in 1..MaxDepth}
  \cup {E, <<"Hi">>, <<"a", SP, "<", SP, "b">>, <<"AT", "&", "T">>}

DecodeInputs ==
  {Str(s) : s \in DecodeStrings}
  \cup {D(<<P("data", Str(s)), P("size", IntV("3"))>>) : s \in DecodeStrings}
  \cup {D(<< <<s, W("Hi")>>, <<<<"<">>, None>> >>) : s \in DecodeStrings}
  \cup {List(<<Str(s), D(<<P("text", Str(s))>>)>>) : s \in DecodeStrings}
  \cup {None, IntV("3"), True, D(<<>>), List(<<>>)}

InitDecode ==
  /\ widget_cache = EmptyCache
  /\ calls = 0
  /\ apk_builds = <<>>
  /\ op = "init"
  /\ arg \in DecodeInputs
  /\ ret = <<>>

\* a call of _decode_html_deeply: the first on arg, each later one on the value the
\* call before it returned; ret lists the values returned so far
Decode ==
  /\ calls < MaxDecodes
  /\ ret' = Append(ret, _decode_html_deeply(IF ret = <<>> THEN arg ELSE ret[Len(ret)]))
  /\ calls' = calls + 1
  /\ op' = "_decode_html_deeply"
  /\ UNCHANGED apk_builds
  /\ UNCHANGED <<widget_cache, arg>>

NextDecode == Decode

SpecDecode == InitDecode /\ [][NextDecode]_vars

-----------------------------------------------------------------------------
(* _get_template on its own *)

TemplateProps ==
  { None, D(<<>>), W("Hi"),
    D(<<P("variant", W("broken"))>>), D(<<P("variant", IntV("1"))>>),
    D(<<P("variant", True)>>), D(<<P("variant", W("outlined"))>>),
    D(<<P("elevated", True)>>), D(<<P("elevated", IntV("1"))>>), D(<<P("elevated", False)>>),
    D(<<P("elevated", W("true"))>>) }

Optional(key, values) == {<<>>} \cup {<<P(key, v)>> : v \in values}

TemplateDescriptors ==
  {D(s \o v \o p) :
     s \in Optional("style", {W("fancy"), W("plain"), None}),
     v \in Optional("variant", {W("outlined"), W("bordered"), W("other"),
                                List(<<W("outlined")>>)}),
     p \in Optional("properties", TemplateProps)}

TemplateInputs ==
  {<<Fields(w), d>> : w \in {w \in WidgetTypes : w.is_active}, d \in TemplateDescriptors}

InitTemplate ==
  /\ widget_cache = EmptyCache
  /\ calls = 0
  /\ apk_builds = <<>>
  /\ op = "init"
  /\ arg \in TemplateInputs
  /\ ret = None

\* a call _get_template(widget_type, component_data) with arg = <<widget_type, component_data>>
GetTemplate ==
  /\ op = "init"
  /\ ret' = _get_template(arg[1], arg[2])
  /\ calls' = calls + 1
  /\ op' = "_get_template"
  /\ UNCHANGED apk_builds
  /\ UNCHANGED <<widget_cache, arg>>

NextTemplate == GetTemplate

SpecTemplate == InitTemplate /\ [][NextTemplate]_vars

-----------------------------------------------------------------------------
(* _matches_conditions on its own *)

\* condition maps: none, empty, plain and dotted keys, scalar and list expectations
ConditionMaps ==
  { None, D(<<>>),
    D(<<P("style", W("fancy"))>>),
    D(<<P("style", None)>>),
    D(<<P("variant", List(<<W("outlined"), W("bordered")>>)), P("style", W("plain"))>>),
    D(<< <<<<"properties", ".", "variant">>, List(<<W("broken"), IntV("1")>>)>> >>),
    D(<< <<<<"properties", ".", "elevated">>, True>> >>),
    D(<< <<<<"properties", ".", "variant", ".", "kind">>, W("broken")>> >>),
    D(<< <<<<"properties", ".", "missing">>, List(<<None>>)>>, P("style", W("plain"))>>),
    D(<< <<<<"style", ".", "name">>, None>> >>) }

ConditionInputs == {<<c, d>> : c \in ConditionMaps, d \in TemplateDescriptors}

InitConditions ==
  /\ widget_cache = EmptyCache
  /\ calls = 0
  /\ apk_builds = <<>>
  /\ op = "init"
  /\ arg \in ConditionInputs
  /\ ret = None

\* a call _matches_conditions(conditions, component_data) with
\* arg = <<conditions, component_data>>
MatchesConditions ==
  /\ op = "init"
  /\ ret' = _matches_conditions(arg[1], arg[2])
  /\ calls' = calls + 1
  /\ op' = "_matches_conditions"
  /\ UNCHANGED apk_builds
  /\ UNCHANGED <<widget_cache, arg>>

NextConditions == MatchesConditions

SpecConditions == InitConditions /\ [][NextConditions]_vars

-----------------------------------------------------------------------------
(* _process_properties on its own *)

\* raw values of a property: the null sentinels, falsy values and ordinary ones
RawValues == {None, W("None"), NoneList, IntV("0"), False, Str(E), IntV("7"), W("slow"),
              Float(<<"2", ".", "5">>)}

PropertyMaps(n1, n2, n3) ==
  {D(a \o b \o c) : a \in Optional(n1, RawValues), b \in Optional(n2, RawValues),
                    c \in Optional(n3, RawValues)}

\* maps that name undeclared properties around declared ones, in an order that is not
\* the schema's, and the container-only keys
MixedMaps ==
  {D(<<P("zeta", a), P("items", List(<<IntV("1")>>)), P("value", b), P("alpha", c),
       P("options", D(<<P("height", IntV("3"))>>)), P("divisions", IntV("3"))>>) :
     a \in {IntV("7"), True, None}, b \in {IntV("7"), None}, c \in {IntV("7"), False, W("slow")}}

\* maps of undeclared properties: a boolean, a widget-shaped map, and a spacing-shaped
\* map under several names
UnknownMaps ==
  {D(<<P("flag", b), P("thumb", D(<<P("type", W("Icon"))>>)),
       P(name, D(<<P("all", IntV("8"))>>))>>) :
     b \in {True, False}, name \in {"padding", "margin", "inset"}}

PropertyInputs ==
  {<<Fields(Row(K("Slider"))), m>> : m \in PropertyMaps("divisions", "value", "mode")}
  \cup {<<Fields(Row(K("Slider"))), m>> : m \in PropertyMaps("label", "overflow", "extra")}
  \cup {<<Fields(Row(K("Image"))), m>> : m \in PropertyMaps("fit", "semanticLabel", "width")}
  \cup {<<Fields(Row(K("Text"))), m>> : m \in PropertyMaps("data", "style", "textAlign")}
  \cup {<<Fields(Row(K("Column"))), m>> : m \in {None, List(<<>>), W("mainAxisAlignment")}}
  \cup {<<Fields(Row(K("Slider"))), m>> : m \in MixedMaps}
  \cup {<<Fields(Row(K("Column"))), m>> : m \in UnknownMaps}

InitProperties ==
  /\ widget_cache = EmptyCache
  /\ calls = 0
  /\ apk_builds = <<>>
  /\ op = "init"
  /\ arg \in PropertyInputs
  /\ ret = None

\* a call _process_properties(widget_type, raw_properties) with
\* arg = <<widget_type, raw_properties>>
ProcessProperties ==
  /\ op = "init"
  /\ ret' = _process_properties(arg[1], arg[2])
  /\ calls' = calls + 1
  /\ op' = "_process_properties"
  /\ UNCHANGED apk_builds
  /\ UNCHANGED <<widget_cache, arg>>

NextProperties == ProcessProperties

SpecProperties == InitProperties /\ [][NextProperties]_vars

-----------------------------------------------------------------------------
(* validate_component and the generate_widget_code view on their own *)

InitValidate ==
  /\ widget_cache = EmptyCache
  /\ calls = 0
  /\ apk_builds = <<>>
  /\ op = "init"
  /\ arg \in Descriptors
  /\ ret = None

\* a call validate_component(arg) on a generator
ValidateComponent ==
  /\ op = "init"
  /\ ret' = validate_component(arg)
  /\ calls' = calls + 1
  /\ op' = "validate_component"
  /\ UNCHANGED apk_builds
  /\ UNCHANGED <<widget_cache, arg>>

\* a POST to generate_widget_code with body arg: the view builds a generator of its
\* own, whose cache is dropped with it
GenerateWidgetCode ==
  /\ op = "init"
  /\ ret' = generate_widget_code(arg)
  /\ calls' = calls + 1
  /\ op' = "generate_widget_code"
  /\ UNCHANGED apk_builds
  /\ UNCHANGED <<widget_cache, arg>>

NextValidate == ValidateComponent \/ GenerateWidgetCode

SpecValidate == InitValidate /\ [][NextValidate]_vars

-----------------------------------------------------------------------------
(* generate_imports on its own *)

MaxComponents == 2

\* components of a page: leaves, types of external packages at the top level and
\* nested in children and items, an inactive type, an unknown one, no type, no map
ComponentPool ==
  { TextA, Widget("CarouselSlider", D(<<>>)), Widget("Badge", D(<<>>)),
    Widget("Legacy", D(<<>>)), Widget("UnknownWidgetXYZ", D(<<>>)), D(<<>>),
    Parent("Column", D(<<>>), <<Widget("CarouselSlider", D(<<>>))>>),
    Parent("Column", D(<<>>), <<Widget("Badge", D(<<>>)), TextA>>),
    Widget("CarouselSlider", D(<<P("items", List(<<Widget("Badge", D(<<>>))>>))>>)),
    None }

ImportInputs == UNION {[1..n -> ComponentPool] : n \in 0..MaxComponents}

InitImports ==
  /\ widget_cache = EmptyCache
  /\ calls = 0
  /\ apk_builds = <<>>
  /\ op = "init"
  /\ arg \in ImportInputs
  /\ ret = None

\* a call generate_imports(arg) on a fresh generator
GenerateImports ==
  /\ op = "init"
  /\ ret' = generate_imports(arg)
  /\ calls' = calls + 1
  /\ op' = "generate_imports"
  /\ UNCHANGED apk_builds
  /\ UNCHANGED <<widget_cache, arg>>

NextImports == GenerateImports

SpecImports == InitImports /\ [][NextImports]_vars

-----------------------------------------------------------------------------
(* Concurrent renders that share one generator: the steps of generate_widget on
   widget_cache, interleaved *)

MaxThreads == 2

Threads == 1..MaxThreads

\* a lookup that also returns rows that are not active
objects_get_any(name) ==
  [found |-> \E w \in WidgetTypes : w.name = name,
   widget_type |-> Fields(Row(name))]

\* WidgetType.objects.get(name=widget_type_name, is_active=True); found is FALSE for
\* WidgetType.DoesNotExist
objects_get(name) ==
  [found |-> Exists(name),
   widget_type |-> IF Exists(name) THEN Fields(Row(name)) ELSE None]

\* the descriptors the concurrent renders are given
CacheDescriptors ==
  { TextA, Parent("Column", D(<<>>), <<TextA, TextB>>), Widget("Legacy", D(<<>>)),
    Parent("Column", D(<<>>), <<Widget("UnknownWidgetXYZ", D(<<>>)), IconHome>>),
    D(<<>>) }

\* the type names the calls of generate_widget for a descriptor look up, in the order
\* of the calls: the descriptor's own, then those of the children a container of the
\* template pipeline processes
RECURSIVE Lookups(_), ChildLookups(_)
Lookups(d) ==
  LET widget_type_name == Get(d, K("type"), None) IN
  IF ~Truthy(widget_type_name) THEN <<>>
  ELSE <<widget_type_name.s>>
       \o (IF Exists(widget_type_name.s) /\ Row(widget_type_name.s).is_container
              /\ widget_type_name \notin {W("CarouselSlider"), W("FloatingActionButton"),
                                          W("Badge")}
           THEN ChildLookups(Get(d, K("children"), List(<<>>)).m)
           ELSE <<>>)
ChildLookups(m) ==
  IF m = <<>> THEN <<>>
  ELSE (IF IsDict(m[1][2]) THEN Lookups(m[1][2]) ELSE <<>>) \o ChildLookups(Tail(m))

\* the position of a thread: the lookup it is at, the statement it is about to
\* execute, its local widget_type and the names it has written to the cache
Position(pc, i, widget_type, stored) ==
  [pc |-> pc, i |-> i, widget_type |-> widget_type, stored |-> stored]
\* the position after the lookup i of a render is finished
Advance(t, stored) ==
  Position(IF ret[t].i < Len(Lookups(arg[t])) THEN "lookup" ELSE "done",
           ret[t].i + 1, None, stored)
Current(t) == Lookups(arg[t])[ret[t].i]

InitCache ==
  /\ widget_cache = EmptyCache
  /\ calls = 0
  /\ apk_builds = <<>>
  /\ op = "init"
  /\ arg \in [Threads -> CacheDescriptors]
  /\ ret = [t \in Threads |->
              Position(IF Lookups(arg[t]) = <<>> THEN "done" ELSE "lookup", 1, None, {})]

\* if widget_type_name in self.widget_cache
Lookup(t) ==
  /\ ret[t].pc = "lookup"
  /\ ret' = [ret EXCEPT ![t].pc = IF Current(t) \in DOMAIN widget_cache THEN "cached"
                                  ELSE "fetch"]
  /\ op' = "lookup"
  /\ UNCHANGED apk_builds
  /\ UNCHANGED <<widget_cache, calls, arg>>

\* widget_type = self.widget_cache[widget_type_name]; a missing key is a KeyError
ReadCached(t) ==
  /\ ret[t].pc = "cached"
  /\ ret' = [ret EXCEPT ![t] = IF Current(t) \in DOMAIN widget_cache
                               THEN Advance(t, ret[t].stored)
                               ELSE Position("KeyError", ret[t].i, None, ret[t].stored)]
  /\ op' = "read"
  /\ UNCHANGED apk_builds
  /\ UNCHANGED <<widget_cache, calls, arg>>

\* widget_type = WidgetType.objects.get(...); on DoesNotExist the fallback widget is
\* returned and the cache is left alone
Fetch(t) ==
  /\ ret[t].pc = "fetch"
  /\ ret' = [ret EXCEPT ![t] = IF objects_get(Current(t)).found
                               THEN Position("assign", ret[t].i,
                                             objects_get(Current(t)).widget_type,
                                             ret[t].stored)
                               ELSE Advance(t, ret[t].stored)]
  /\ calls' = calls + 1
  /\ op' = "fetch"
  /\ UNCHANGED apk_builds
  /\ UNCHANGED <<widget_cache, arg>>

\* self.widget_cache[widget_type_name] = widget_type
Assign(t) ==
  /\ ret[t].pc = "assign"
  /\ widget_cache' = [n \in DOMAIN widget_cache \cup {Current(t)} |->
                        IF n = Current(t) THEN ret[t].widget_type ELSE widget_cache[n]]
  /\ ret' = [ret EXCEPT ![t] = Advance(t, ret[t].stored \cup {Current(t)})]
  /\ op' = "assign"
  /\ UNCHANGED apk_builds
  /\ UNCHANGED <<calls, arg>>

NextCache == \E t \in Threads : Lookup(t) \/ ReadCached(t) \/ Fetch(t) \/ Assign(t)

SpecCache == InitCache /\ [][NextCache]_vars

-----------------------------------------------------------------------------
(* The pages of a project: _generate_pages on the project's dynamic components *)

MaxOrder == 1

PageNames == {K("HomePage"), K("Settings")}

\* the rows a project may hold: a Column, two Texts that may hang under a parent row,
\* a Text whose properties are no map, a CarouselSlider
ColumnRows ==
  {DynamicPageComponent(1, K("HomePage"), K("Column"), D(<<>>), order, 0) :
     order \in 0..MaxOrder}
TextRowsA ==
  {DynamicPageComponent(2, page, K("Text"), D(<<P("data", W("A"))>>), order, parent) :
     page \in PageNames, order \in 0..MaxOrder, parent \in {0, 1}}
TextRowsB ==
  {DynamicPageComponent(3, K("HomePage"), K("Text"), D(<<P("data", W("B"))>>), order, parent) :
     order \in 0..MaxOrder, parent \in {0, 1, 2}}
  \cup {DynamicPageComponent(3, K("HomePage"), K("Text"), List(<<IntV("1")>>), MaxOrder, 0)}
CarouselRows ==
  {DynamicPageComponent(4, K("HomePage"), K("CarouselSlider"), p, MaxOrder, 0) :
     p \in {D(<<>>), D(<<P("items", List(<<TextA, W("x")>>)),
                         P("options", D(<<P("autoPlay", False)>>))>>)}}

RowSets ==
  {{c} \cup a \cup b \cup s :
     c \in ColumnRows, a \in {{}} \cup {{r} : r \in TextRowsA},
     b \in {{}} \cup {{r} : r \in TextRowsB}, s \in {{}} \cup {{r} : r \in CarouselRows}}

\* project.dynamic_components.all(): the rows in ascending order, rows of equal order
\* in any order
QueryResults(rows) ==
  {q \in [1..Cardinality(rows) -> rows] :
     /\ \A i, j \in 1..Cardinality(rows) : i < j => q[i] # q[j] /\ q[i].order <= q[j].order}

Projects == UNION {QueryResults(rows) : rows \in RowSets}

InitPages ==
  /\ widget_cache = EmptyCache
  /\ calls = 0
  /\ apk_builds = <<>>
  /\ op = "init"
  /\ arg \in Projects
  /\ ret = None

\* _generate_dynamic_main_dart groups the components by page and calls _generate_pages
GeneratePages ==
  /\ op = "init"
  /\ ret' = _generate_pages(arg)
  /\ widget_cache' =
       [n \in UNION {ret'.pages[i].v : i \in 1..Len(ret'.pages)} |-> Fields(Row(n))]
  /\ calls' = calls + 1
  /\ op' = "_generate_pages"
  /\ UNCHANGED apk_builds
  /\ UNCHANGED arg

NextPages == GeneratePages

SpecPages == InitPages /\ [][NextPages]_vars

-----------------------------------------------------------------------------
(* build_apk on its own: one call, a step for each command it waits for *)

ProjectNames == {"shop", "blog"}

\* what flutter writes to its standard error: two network failures, two others
NetworkErrors == {<<"HTTP", SP, "503">>, <<"java", ".", "io", ".", "IOException">>}
OtherErrors == {<<"Gradle", SP, "task", SP, "failed">>, E}
Built == <<"Built", SP, "app", "-", "release", ".", "apk">>

\* the outcomes of a command: success (also with warnings about the network), a failure
\* with each of the messages, the timeout, and another exception
Runs ==
  {CompletedProcess(0, Built, E), CompletedProcess(0, Built, <<"HTTP", SP, "503">>)}
  \cup {CompletedProcess(1, E, e) : e \in NetworkErrors \cup OtherErrors}
  \cup {Raises("TimeoutExpired"), Raises("OSError")}

InitBuild ==
  /\ widget_cache = EmptyCache
  /\ calls = 0
  /\ apk_builds = <<>>
  /\ op = "init"
  /\ arg \in ProjectNames \X BOOLEAN
  /\ ret = BuildFrame(arg[1], arg[2])

\* a step of build_apk to the frame it leaves
BuildStep(name, frame) ==
  /\ ret' = frame
  /\ op' = name
  /\ calls' = IF frame.pc = "return" THEN calls + 1 ELSE calls
  /\ UNCHANGED <<widget_cache, arg, apk_builds>>

CheckFlutter ==
  /\ ret.pc = "check"
  /\ \E flutter_ok \in BOOLEAN :
       BuildStep("check_flutter_installation",
                 check_flutter(ret, flutter_ok, <<"Flutter", SP, "command", SP, "not",
                                                  SP, "found">>))

CreateProject ==
  /\ ret.pc = "create"
  /\ \E x \in {"", "OSError"} : BuildStep("create_flutter_project_files",
                                          create_project(ret, x))

PubGet ==
  /\ ret.pc = "pub"
  /\ \E pub_result \in Runs : BuildStep("pub_get", pub_get(ret, pub_result))

BuildAttempt ==
  /\ ret.pc = "build"
  /\ \E build_result \in Runs : BuildStep("build_apk", build_attempt(ret, build_result))

FindApk ==
  /\ ret.pc = "find"
  /\ \E exists \in BOOLEAN : BuildStep("find_apk", find_apk(ret, exists))

CopyApk ==
  /\ ret.pc = "copy"
  /\ \E copy_success \in BOOLEAN : BuildStep("copy_apk", copy_apk(ret, copy_success))

NextBuild == CheckFlutter \/ CreateProject \/ PubGet \/ BuildAttempt \/ FindApk \/ CopyApk

SpecBuild == InitBuild /\ [][NextBuild]_vars

-----------------------------------------------------------------------------
(* The build requests of the admin and their background threads, interleaved *)

MaxRequests == 2

Requests == 1..MaxRequests

\* the frames one step of build_apk can leave while the admin's builds run: flutter is
\* installed or not, and the commands succeed
BuildSteps(f) ==
  CASE f.pc = "check" ->
         {check_flutter(f, flutter_ok, <<"not", SP, "found">>) : flutter_ok \in BOOLEAN}
    [] f.pc = "create" -> {create_project(f, "")}
    [] f.pc = "pub" -> {pub_get(f, CompletedProcess(0, E, E))}
    [] f.pc = "build" -> {build_attempt(f, CompletedProcess(0, Built, E))}
    [] f.pc = "find" -> {find_apk(f, TRUE)}
    [] f.pc = "copy" -> {copy_apk(f, TRUE)}
    [] OTHER -> {}

\* the frames with which the calls of build_apk return that are at the given frames
RECURSIVE ReturnFrames(_)
ReturnFrames(frames) ==
  IF \A f \in frames : f.pc = "return" THEN frames
  ELSE ReturnFrames(UNION {IF f.pc = "return" THEN {f} ELSE BuildSteps(f) : f \in frames})

\* the position of a request and of the thread it starts: the statement it is at, the
\* id of the row it created (0 before), its APKBuild instance and the frame of its
\* call of build_apk
AdminPosition(pc, id, apk_build, frame) ==
  [pc |-> pc, id |-> id, apk_build |-> apk_build, frame |-> frame]

InitAdmin ==
  /\ widget_cache = EmptyCache
  /\ calls = 0
  /\ apk_builds = <<>>
  /\ op = "init"
  /\ arg \in {requested \in [Requests -> ProjectNames] : requested[1] = "shop"}
  /\ ret = [r \in Requests |-> AdminPosition("request", 0, None, None)]

\* a step of request r or of its thread: its new position and the table it leaves
AdminStep(r, name, position, table) ==
  /\ ret' = [ret EXCEPT ![r] = position]
  /\ apk_builds' = table
  /\ op' = name
  /\ UNCHANGED <<widget_cache, calls, arg>>

\* active_build = project.apk_builds.filter(...).first(); if active_build: the warning
\* and the redirect
FilterActive(r) ==
  /\ ret[r].pc = "request"
  /\ AdminStep(r, "filter",
               [ret[r] EXCEPT !.pc = IF first_active(apk_builds, arg[r]) # 0
                                     THEN "redirected" ELSE "create"],
               apk_builds)

\* apk_build = APKBuild.objects.create(project=project, status='pending') and
\* thread.start()
CreateBuild(r) ==
  /\ ret[r].pc = "create"
  /\ AdminStep(r, "create",
               AdminPosition("thread", Len(apk_builds) + 1,
                             APKBuild(arg[r], "pending"), None),
               Append(apk_builds, APKBuild(arg[r], "pending")))

\* apk_build.status = 'building'; apk_build.save()
StartBuilding(r) ==
  /\ ret[r].pc = "thread"
  /\ LET apk_build == [ret[r].apk_build EXCEPT !.status = "building"]
     IN AdminStep(r, "building", [ret[r] EXCEPT !.pc = "builder", !.apk_build = apk_build],
                  save(apk_builds, ret[r].id, apk_build))

\* builder = FlutterAPKBuilder(), whose os.makedirs may raise, and
\* result = builder.build_apk(apk_build.project, progress_callback): the call runs to
\* its return, and every progress_callback saves the instance with its longer build_log
Build(r) ==
  /\ ret[r].pc = "builder"
  /\ \/ AdminStep(r, "except",
                  [ret[r] EXCEPT !.pc = "done",
                                 !.apk_build = failed_unexpectedly(@, "OSError")],
                  save(apk_builds, ret[r].id,
                       failed_unexpectedly(ret[r].apk_build, "OSError")))
     \/ \E frame \in ReturnFrames({BuildFrame(ret[r].apk_build.project, TRUE)}) :
          LET apk_build == progress_callback(ret[r].apk_build, frame)
          IN AdminStep(r, "build_apk",
                       [ret[r] EXCEPT !.pc = "build_apk", !.frame = frame,
                                      !.apk_build = apk_build],
                       save(apk_builds, ret[r].id, apk_build))

\* the result of build_apk is recorded and saved
Complete(r) ==
  /\ ret[r].pc = "build_apk"
  /\ ret[r].frame.pc = "return"
  /\ \E exists \in BOOLEAN, x \in {"", "OSError"} :
       LET apk_build == completed_build(ret[r].apk_build, ret[r].frame.result, exists, x)
       IN AdminStep(r, "result", [ret[r] EXCEPT !.pc = "done", !.apk_build = apk_build],
                    save(apk_builds, ret[r].id, apk_build))

\* the steps of the background thread of request r
Background(r) == StartBuilding(r) \/ Build(r) \/ Complete(r)

NextAdmin == \E r \in Requests : FilterActive(r) \/ CreateBuild(r) \/ Background(r)

SpecAdmin == InitAdmin /\ [][NextAdmin]_vars

\* the same with threads that are scheduled as long as they can take a step
SpecAdminFair == SpecAdmin /\ \A r \in Requests : WF_vars(Background(r))

-----------------------------------------------------------------------------
(* Properties of generate_widget *)

\* the call whose result the state holds
Called == op = "generate_widget"
Returns == Called /\ ~ret.x
Output == ret.r.s
TypeOf(d) == Get(d, K("type"), None)
PropertiesOf(d) == Get(d, K("properties"), EmptyDict)

\* C1: for every input descriptor, generate_widget returns a non-empty string and
\* raises nothing to its caller.
C1_AlwaysReturnsText ==
  Called /\ IsDict(arg) => ~ret.x /\ IsStr(ret.r) /\ Output # E

\* C2: for the Text widget kind and any properties map, generate_widget returns a Text
\* call whose first positional argument is a quoted text literal (the data, else text,
\* property when supplied, otherwise a placeholder): never Text() and never the text
\* only as a named argument.
TextCall == Called /\ IsDict(arg) /\ TypeOf(arg) = W("Text") /\ IsDict(PropertiesOf(arg))
Supplied(props) ==
  IF Has(props, K("data")) THEN Get(props, K("data"), None)
  ELSE Get(props, K("text"), W("Text"))
C2_TextFirstArgument ==
  TextCall =>
    /\ ~ret.x
    /\ StartsWith(Output, <<"Text", "(", SQ>>)
    /\ Supplied(PropertiesOf(arg)) \in {W("Hi"), W("Hello"), W("Text")} =>
         StartsWith(Output, <<"Text", "(", SQ>> \o Supplied(PropertiesOf(arg)).s \o <<SQ>>)

\* the positions where text p occurs in text s
Occurrences(s, p) == {i \in 1..(Len(s) - Len(p) + 1) : SubSeq(s, i, i + Len(p) - 1) = p}
\* the texts of parts occur in s from position from on, one after the other
RECURSIVE InOrder(_, _, _)
InOrder(s, parts, from) ==
  \/ parts = <<>>
  \/ /\ \E i \in Occurrences(s, parts[1]) : i >= from
     /\ InOrder(s, Tail(parts),
                Len(parts[1]) + CHOOSE i \in Occurrences(s, parts[1]) :
                                  i >= from /\ \A j \in Occurrences(s, parts[1]) : j >= from => i <= j)

\* C3: a multi-child container type rendered from a descriptor whose children list
\* has n child descriptors returns an output that contains exactly the n rendered
\* children, in input order: none dropped, duplicated or reordered.
ChildrenOf(d) == Get(d, K("children"), List(<<>>)).m
MultiChildCall ==
  /\ Called /\ IsDict(arg) /\ IsStr(TypeOf(arg)) /\ Exists(TypeOf(arg).s)
  /\ Row(TypeOf(arg).s).is_container /\ Row(TypeOf(arg).s).can_have_multiple_children
  /\ IsList(Get(arg, K("children"), None)) /\ ChildrenOf(arg) # <<>>
  /\ \A i \in 1..Len(ChildrenOf(arg)) : IsDict(ChildrenOf(arg)[i][2])
Rendered(children) == [i \in 1..Len(children) |-> generate_widget(children[i][2])]
ExactlyInOrder(out, rendered) ==
  /\ \A i \in 1..Len(rendered) : ~rendered[i].x
  /\ InOrder(out, [i \in 1..Len(rendered) |-> rendered[i].r.s], 1)
  /\ \A i \in 1..Len(rendered) :
       LET once(j) == Cardinality(Occurrences(rendered[j].r.s, rendered[i].r.s))
           RECURSIVE total(_)
           total(j) == IF j = 0 THEN 0 ELSE once(j) + total(j - 1)
       IN Cardinality(Occurrences(out, rendered[i].r.s)) = total(Len(rendered))
C3_ChildrenInOrder ==
  MultiChildCall => ~ret.x /\ ExactlyInOrder(Output, Rendered(ChildrenOf(arg)))

\* C4: a property declared with type tag enum, with or without an allowed-value set
\* and whatever its name, given a bare word w that is in no allowed set, is rendered
\* as EnumClass.w: never as a quoted string, and no error path is taken.
BareWords == {K("ellipsis"), K("turbo"), K("stretchy")}
EnumClassOf(prop_def) ==
  CASE prop_def.name = K("mainAxisAlignment") -> K("MainAxisAlignment")
    [] prop_def.name = K("crossAxisAlignment") -> K("CrossAxisAlignment")
    [] prop_def.name = K("textAlign") -> K("TextAlign")
    [] prop_def.name = K("fit") -> K("BoxFit")
    [] OTHER -> Split(prop_def.dart_type, ".")[1]
\* the declared enum properties of the called type that the call gives a bare word
EnumGiven ==
  IF Called /\ IsDict(arg) /\ IsStr(TypeOf(arg)) /\ Exists(TypeOf(arg).s)
     /\ IsDict(PropertiesOf(arg))
  THEN {i \in 1..Len(Row(TypeOf(arg).s).properties) :
          /\ Row(TypeOf(arg).s).properties[i].property_type = "enum"
          /\ IsStr(Get(PropertiesOf(arg), Row(TypeOf(arg).s).properties[i].name, None))
          /\ Get(PropertiesOf(arg), Row(TypeOf(arg).s).properties[i].name, None).s \in BareWords}
  ELSE {}
C4_EnumBareWord ==
  \A i \in EnumGiven :
    LET prop_def == Row(TypeOf(arg).s).properties[i]
        w == Get(PropertiesOf(arg), prop_def.name, None).s
    IN /\ ~ret.x
       /\ Occurrences(Output, prop_def.name \o <<":", SP>> \o EnumClassOf(prop_def)
                              \o <<".">> \o w) # {}
       /\ Occurrences(Output, <<SQ>> \o w \o <<SQ>>) = {}

\* C5: the string generate_widget returns never contains a raw {key: value}-shaped
\* map fragment, for any descriptor and on every path (template pipeline, special-case
\* renderers, fallback renderer).
MapFragment(s) ==
  \E i \in 1..Len(s) : \E j \in (i + 1)..Len(s) :
    /\ s[i] = "{" /\ s[j] = "}"
    /\ \E l \in (i + 1)..(j - 1) : s[l] = ":"
    /\ \A l \in (i + 1)..(j - 1) : s[l] \notin {"{", "}"}
C5_NoRawMap == Returns /\ IsStr(ret.r) => ~MapFragment(Output)

\* C7: when the descriptor's type is missing or is not an active type of the schema
\* store, generate_widget returns TypeName(p1: literal1, ...) built only from the raw
\* scalar properties (string, boolean, number) in input order, ignoring nested
\* widgets, lists and children, and surfaces no error to its caller.
NotFoundCall ==
  /\ Called /\ IsDict(arg)
  /\ \/ ~Has(arg, K("type"))
     \/ IsStr(TypeOf(arg)) /\ TypeOf(arg).s # E /\ ~Exists(TypeOf(arg).s)
Literal(v) ==
  IF IsStr(v) THEN <<SQ>> \o v.s \o <<SQ>>
  ELSE IF IsBool(v) THEN (IF v = True THEN <<"true">> ELSE <<"false">>)
  ELSE PyStr(v)
IsScalar(entry) == IsStr(entry[2]) \/ IsNumber(entry[2])
\* the call the claim describes, for a descriptor with its entities decoded
LiteralCall(d) ==
  LET scalars == SelectSeq(PropertiesOf(d).m, IsScalar)
  IN PyStr(Get(d, K("type"), W("Container"))) \o <<"(">>
     \o Join([i \in 1..Len(scalars) |-> scalars[i][1] \o <<":", SP>> \o Literal(scalars[i][2])],
             <<",", SP>>)
     \o <<")">>
C7_NotFoundLiteralCall ==
  NotFoundCall => ~ret.x /\ Output = LiteralCall(_decode_html_deeply(arg))

-----------------------------------------------------------------------------
(* Properties of _decode_html_deeply *)

\* the number of html.unescape passes that bring a text to its fixed point
RECURSIVE EncodingDepth(_)
EncodingDepth(s) == IF unescape(s) = s THEN 0 ELSE 1 + EncodingDepth(unescape(s))
Max(S) == IF S = {} THEN 0 ELSE CHOOSE n \in S : \A l \in S : l <= n
\* the deepest encoding among the strings and keys a value holds
RECURSIVE ValueDepth(_)
ValueDepth(v) ==
  IF v.k = "str" THEN EncodingDepth(v.s)
  ELSE Max({EncodingDepth(v.m[i][1]) : i \in 1..Len(v.m)}
           \cup {ValueDepth(v.m[i][2]) : i \in 1..Len(v.m)})
Decoded == op = "_decode_html_deeply"
Idempotent == \A i \in 2..Len(ret) : ret[i] = ret[i - 1]

\* C6 as stated: _decode_html_deeply is idempotent for every value, a string at any
\* depth of repeated entity-encoding or a map or list holding such strings, and an
\* already fully decoded value is returned unchanged.
C6_Idempotent ==
  Decoded => Idempotent /\ (ValueDepth(arg) = 0 => ret[1] = arg)

\* C6 amended: _decode_html_deeply is idempotent on every value whose strings and keys
\* are entity-encoded to a depth of at most DecodePasses, the cap of its loop, and
\* returns a fully decoded value unchanged; on a value encoded deeper than the cap the
\* first call stops at the cap and a second call changes its result.
C6_IdempotentWithinCap ==
  Decoded =>
    /\ ValueDepth(arg) <= DecodePasses => Idempotent
    /\ ValueDepth(arg) = 0 => ret[1] = arg
    /\ ValueDepth(arg) > DecodePasses /\ Len(ret) >= 2 => ret[2] # ret[1]
\* a map encoded exactly as deep as the cap, decoded twice
C6_DecodedTwiceAtCap ==
  /\ Decoded /\ Len(ret) = 2 /\ IsDict(arg) /\ ValueDepth(arg) = DecodePasses
  /\ ret[1] # arg /\ ret[2] = ret[1]

\* the text after k passes of html.unescape
RECURSIVE Passes(_, _)
Passes(s, k) == IF k = 0 THEN s ELSE Passes(unescape(s), k - 1)
\* the passes that change a text before one changes nothing, at most 5 of them
PassesMade(s) == IF EncodingDepth(s) < 5 THEN EncodingDepth(s) ELSE 5

\* C23: decoding one string in _decode_html_deeply performs at most 5 unescape passes,
\* stops at the first pass that changes nothing, and always terminates; when the input
\* is encoded more deeply than the cap, it returns the value obtained after exactly 5
\* passes instead of looping or failing.
C23_CappedPasses ==
  Decoded /\ IsStr(arg) =>
    /\ IsStr(ret[1])
    /\ ret[1].s = Passes(arg.s, PassesMade(arg.s))
    /\ EncodingDepth(arg.s) > 5 => ret[1].s = Passes(arg.s, 5) /\ ret[1].s # Passes(arg.s, 6)
\* a string encoded deeper than the cap, returned after 5 passes with a pass still
\* to make
C23_StoppedAtCap ==
  /\ Decoded /\ IsStr(arg) /\ EncodingDepth(arg.s) = 7
  /\ ret[1].s = Passes(arg.s, 5) /\ unescape(ret[1].s) # ret[1].s

-----------------------------------------------------------------------------
(* Properties of _get_template *)

Selected == op = "_get_template"
Stored(widget_type) ==
  {templates_all(widget_type)[i] : i \in 1..Len(templates_all(widget_type))}
\* the active templates of the type every condition of which matches the descriptor
ActiveMatching(widget_type, component_data) ==
  {t \in Stored(widget_type) :
     t.is_active /\ _matches_conditions(t.conditions, component_data)}

\* C8: _get_template returns the body of the highest-priority active template of the
\* widget type whose every condition matches the descriptor: never an inactive
\* template, never a matching template while a higher-priority active one matches, and
\* the structurally derived default template when no active template matches.
C8_HighestPriorityActive ==
  Selected =>
    /\ \A t \in Stored(arg[1]) : ~t.is_active => ret # t.template_code
    /\ IF ActiveMatching(arg[1], arg[2]) = {}
       THEN ret = _get_default_template(arg[1])
       ELSE \E t \in ActiveMatching(arg[1], arg[2]) :
              /\ ret = t.template_code
              /\ \A u \in ActiveMatching(arg[1], arg[2]) : u.priority <= t.priority
\* two active templates of different priority match, and so does an inactive template
\* of a priority above both
C8_SelectedAmongSeveral ==
  /\ Selected
  /\ \E t, u \in ActiveMatching(arg[1], arg[2]) : t.priority < u.priority
  /\ \E r \in Stored(arg[1]) :
       /\ ~r.is_active /\ _matches_conditions(r.conditions, arg[2])
       /\ \A t \in ActiveMatching(arg[1], arg[2]) : t.priority < r.priority
  /\ ret # _get_default_template(arg[1])

-----------------------------------------------------------------------------
(* Properties of _matches_conditions *)

Matched == op = "_matches_conditions"
\* the value at a path into a descriptor: a missing key or an intermediate value that
\* is no map yields no value
RECURSIVE PathValue(_, _)
PathValue(value, path) ==
  IF path = <<>> THEN value
  ELSE IF ~IsDict(value) \/ ~Has(value, path[1]) THEN None
  ELSE PathValue(Get(value, path[1], None), Tail(path))
ActualValue(key, component_data) ==
  IF In(".", key) THEN PathValue(component_data, Split(key, "."))
  ELSE PathValue(component_data, <<key>>)
\* a list-valued expectation matches by membership, a scalar one by equality
EntryMatches(key, expected_value, component_data) ==
  IF IsList(expected_value)
  THEN \E j \in 1..Len(expected_value.m) :
         PyEq(expected_value.m[j][2], ActualValue(key, component_data))
  ELSE PyEq(ActualValue(key, component_data), expected_value)

\* C24: _matches_conditions returns true if and only if every condition entry matches
\* the descriptor: a key containing dots is resolved step by step as a path into the
\* descriptor (a missing key or a non-map intermediate yields no value), a list-valued
\* expectation matches by membership of the actual value, a scalar expectation matches
\* by equality; an empty or absent condition map matches every descriptor.
C24_MatchesIffEveryEntry ==
  Matched =>
    /\ ret \in BOOLEAN
    /\ ret = (\A i \in 1..Len(arg[1].m) :
                EntryMatches(arg[1].m[i][1], arg[1].m[i][2], arg[2]))
    /\ arg[1] \in {None, D(<<>>)} => ret
\* a dotted key with a list expectation is matched by the value found along the path
C24_DottedListMatched ==
  /\ Matched /\ ret
  /\ \E i \in 1..Len(arg[1].m) :
       /\ In(".", arg[1].m[i][1]) /\ IsList(arg[1].m[i][2])
       /\ ActualValue(arg[1].m[i][1], arg[2]) # None

-----------------------------------------------------------------------------
(* Properties of _process_properties *)

ProcessedCall == op = "_process_properties" /\ IsDict(arg[2])
Declared == properties_all(arg[1])
Sentinels == {None, W("None"), NoneList}
\* the raw properties hold an entry for the property that is no null sentinel
Explicit(prop_def, raw) ==
  Has(raw, prop_def.name) /\ Get(raw, prop_def.name, None) \notin Sentinels
\* the effective raw value: the explicit entry, else the default, else None for absent
Effective(prop_def, raw) ==
  IF Explicit(prop_def, raw) THEN Get(raw, prop_def.name, None)
  ELSE IF prop_def.default_value = E THEN None
  ELSE IF json_loads(prop_def.default_value).ok THEN json_loads(prop_def.default_value).value
  ELSE Str(prop_def.default_value)
\* the declared properties that are not skipped: effective value present, or required
Kept(raw) ==
  SelectSeq(Declared, LAMBDA prop_def : Effective(prop_def, raw) # None \/ prop_def.is_required)
\* the entries of a processed list that stem from declared properties
OfDeclared(list) == SelectSeq(list, LAMBDA entry : entry.type # "unknown")
\* each kept property is processed from its effective value
ResolvedInOrder ==
  LET steps == [i \in 1..Len(Kept(arg[2])) |->
                  process_value(Kept(arg[2])[i], Effective(Kept(arg[2])[i], arg[2]))]
  IN /\ (\E i \in 1..Len(steps) : steps[i].x) => ret.x
     /\ ~ret.x => OfDeclared(ret.list) = [i \in 1..Len(steps) |-> steps[i].entry]

DeclaredAt(name) ==
  IF \E i \in 1..Len(Declared) : Declared[i].name = name
  THEN CHOOSE i \in 1..Len(Declared) : Declared[i].name = name ELSE 0
RawAt(name) ==
  IF Has(arg[2], name) THEN CHOOSE i \in 1..Len(arg[2].m) : arg[2].m[i][1] = name ELSE 0

\* C26: the list returned by _process_properties contains the declared properties
\* first, in the schema's declared order, followed by the undeclared raw properties in
\* input order; no property name appears twice, and the container-only keys items and
\* options are never emitted as undeclared properties.
C26_DeclaredThenUndeclared ==
  ProcessedCall /\ ~ret.x =>
    /\ \A i \in 1..Len(ret.list) :
         /\ DeclaredAt(ret.list[i].name) # 0 \/ RawAt(ret.list[i].name) # 0
         /\ DeclaredAt(ret.list[i].name) = 0 => ret.list[i].name \notin {K("items"), K("options")}
    /\ \A i, j \in 1..Len(ret.list) :
         i < j =>
           /\ ret.list[i].name # ret.list[j].name
           /\ DeclaredAt(ret.list[j].name) # 0 => DeclaredAt(ret.list[i].name) # 0
           /\ DeclaredAt(ret.list[j].name) # 0
                => DeclaredAt(ret.list[i].name) < DeclaredAt(ret.list[j].name)
           /\ DeclaredAt(ret.list[i].name) = 0
                => /\ DeclaredAt(ret.list[j].name) = 0
                   /\ RawAt(ret.list[i].name) < RawAt(ret.list[j].name)
\* two declared properties given in the reverse of the schema's order, two undeclared
\* ones around them, and the container-only keys
C26_MixedOrder ==
  /\ ProcessedCall /\ ~ret.x /\ Len(ret.list) = 4
  /\ Has(arg[2], K("items")) /\ Has(arg[2], K("options"))
  /\ DeclaredAt(ret.list[1].name) # 0 /\ DeclaredAt(ret.list[2].name) # 0
  /\ RawAt(ret.list[2].name) < RawAt(ret.list[1].name)
  /\ DeclaredAt(ret.list[3].name) = 0 /\ DeclaredAt(ret.list[4].name) = 0
  /\ RawAt(ret.list[3].name) < RawAt(ret.list[1].name)

SpacingKeys == {K("all"), K("horizontal"), K("vertical"), K("left"), K("top"), K("right"),
                K("bottom")}
\* the raw properties of the call that the schema does not declare
Undeclared ==
  {i \in 1..Len(arg[2].m) :
     /\ DeclaredAt(arg[2].m[i][1]) = 0
     /\ arg[2].m[i][1] \notin {K("items"), K("options")}}
\* the values the returned list holds for a name
ValuesOf(name) == {ret.list[n].value : n \in {l \in 1..Len(ret.list) : ret.list[l].name = name}}

\* C27: for a property not declared in the schema, _handle_unknown_property chooses the
\* rendering by the first predicate that matches the raw value, in the order bool,
\* number, color-shaped string, enum-shaped string, map with a type key, map with
\* spacing-like keys, list, fallback: a boolean is rendered as true/false and never as
\* a number, a map with a type key is rendered by a recursive generate_widget call, and
\* a map with spacing-like keys is rendered by the spacing-box transformer whatever the
\* property's name.
C27_UnknownByShape ==
  ProcessedCall /\ ~ret.x =>
    \A i \in Undeclared :
      LET name == arg[2].m[i][1]
          value == arg[2].m[i][2]
      IN /\ IsBool(value) =>
              ValuesOf(name) = {Str(IF value = True THEN <<"true">> ELSE <<"false">>)}
         /\ IsDict(value) /\ Has(value, K("type")) =>
              ValuesOf(name) = {generate_widget(value).r}
         /\ (IsDict(value) /\ ~Has(value, K("type"))
             /\ \E l \in 1..Len(value.m) : value.m[l][1] \in SpacingKeys) =>
              ValuesOf(name) = {EdgeInsetsPropertyHandler_transform(value).r}

-----------------------------------------------------------------------------
(* Required properties in the output of generate_widget *)

SpecialCased == {W("CarouselSlider"), W("Text"), W("Icon"), W("IconButton"),
                 W("FloatingActionButton"), W("Badge")}
\* the required properties of the called type, rendered through its default template,
\* that have neither an explicit value nor a default
RequiredMissing ==
  IF /\ Called /\ IsDict(arg) /\ IsStr(TypeOf(arg)) /\ Exists(TypeOf(arg).s)
     /\ TypeOf(arg) \notin SpecialCased /\ Row(TypeOf(arg).s).templates = <<>>
     /\ IsDict(PropertiesOf(arg))
  THEN {i \in 1..Len(Row(TypeOf(arg).s).properties) :
          /\ Row(TypeOf(arg).s).properties[i].is_required
          /\ Row(TypeOf(arg).s).properties[i].default_value = E
          /\ ~Explicit(Row(TypeOf(arg).s).properties[i], PropertiesOf(arg))}
  ELSE {}

\* C10: a required declared property that has no explicit value and no default is
\* still emitted in the rendered widget call, with the transformer's null placeholder:
\* a mandatory parameter is never omitted from the output of generate_widget.
C10_RequiredEmitted ==
  \A i \in RequiredMissing :
    /\ ~ret.x
    /\ Occurrences(Output, Row(TypeOf(arg).s).properties[i].name \o <<":", SP>>) # {}

-----------------------------------------------------------------------------
(* Invalid and failing properties in the output of generate_widget *)

\* a call for an active type that is rendered through the template pipeline, with a
\* properties map
PipelineCall ==
  /\ Called /\ IsDict(arg) /\ IsStr(TypeOf(arg)) /\ Exists(TypeOf(arg).s)
  /\ TypeOf(arg) \notin SpecialCased /\ IsDict(PropertiesOf(arg))
DeclaredOf(d) == Row(TypeOf(d).s).properties
\* the value the call gives a declared property, entities decoded
GivenValue(prop_def) == Get(PropertiesOf(_decode_html_deeply(arg)), prop_def.name, None)
HandlerOf(prop_def) == get_handler(prop_def.property_type, handler_kwargs(prop_def))
\* the declared properties of the called type whose handler is constructed and rejects
\* the value the call gives
InvalidGiven ==
  IF PipelineCall
  THEN {i \in 1..Len(DeclaredOf(arg)) :
          /\ Explicit(DeclaredOf(arg)[i], PropertiesOf(arg))
          /\ ~HandlerOf(DeclaredOf(arg)[i]).x
          /\ ~validate(HandlerOf(DeclaredOf(arg)[i]).handler, GivenValue(DeclaredOf(arg)[i]))}
  ELSE {}
\* the null output of a handler, and the null literal
SafeLiterals(handler) == {<<"null">>, PyStr(transform(handler, None).r)}
\* the text that follows "name: " wherever the output names the property
RenderedValues(out, name) ==
  {SubSeq(out, i + Len(name) + 2, Len(out)) : i \in Occurrences(out, name \o <<":", SP>>)}

\* C11: for any declared property, required or not, whose raw value fails its
\* transformer's validate, the value rendered for that property is a safe null/default
\* literal: text derived from the invalid raw value is never emitted into the output.
C11_InvalidRenderedSafe ==
  \A i \in InvalidGiven :
    Returns =>
      \A text \in RenderedValues(Output, DeclaredOf(arg)[i].name) :
        \E safe \in SafeLiterals(HandlerOf(DeclaredOf(arg)[i]).handler) :
          /\ StartsWith(text, safe)
          /\ Len(text) > Len(safe) => text[Len(safe) + 1] \in {",", NL, ")"}

\* the descriptor without the entry of its properties map for a name
Without(d, name) ==
  Dict([i \in 1..Len(d.m) |->
          IF d.m[i][1] = K("properties")
          THEN <<d.m[i][1],
                 Dict(SelectSeq(d.m[i][2].m, LAMBDA entry : entry[1] # name))>>
          ELSE d.m[i]])
\* the names of the properties the call gives whose processing raises: a declared
\* one in the loop over the property definitions, an undeclared one in
\* _handle_unknown_property
CleanedOf(d) == Dict(clean_properties(PropertiesOf(_decode_html_deeply(d)).m))
FailingGiven ==
  IF PipelineCall
  THEN {DeclaredOf(arg)[i].name : i \in {j \in 1..Len(DeclaredOf(arg)) :
          /\ Has(CleanedOf(arg), DeclaredOf(arg)[j].name)
          /\ process_property(DeclaredOf(arg)[j], CleanedOf(arg)).x}}
       \cup {CleanedOf(arg).m[i][1] : i \in {j \in 1..Len(CleanedOf(arg).m) :
          /\ \A l \in 1..Len(DeclaredOf(arg)) : DeclaredOf(arg)[l].name # CleanedOf(arg).m[j][1]
          /\ CleanedOf(arg).m[j][1] \notin {K("items"), K("options")}
          /\ _handle_unknown_property(CleanedOf(arg).m[j][1], CleanedOf(arg).m[j][2]).x}}
  ELSE {}

\* C12: a failure while processing one property of a widget (its transformer cannot be
\* constructed, or validate or transform raises) is confined to that property: the
\* output of generate_widget is the one the same descriptor gives without the failing
\* property, with the widget's other properties and all of its children.
C12_FailureConfined ==
  \A name \in FailingGiven :
    /\ ~ret.x
    /\ ret.r = generate_widget(Without(arg, name)).r

-----------------------------------------------------------------------------
(* Bad child descriptors *)

\* a child descriptor of unknown or missing type, or whose properties are no map
BadChild(child) ==
  \/ ~Has(child, K("type"))
  \/ ~IsStr(TypeOf(child)) \/ ~Exists(TypeOf(child).s)
  \/ ~IsDict(PropertiesOf(child))
\* a call for a multi-child container of the template pipeline with several child
\* descriptors, one of them bad and the others not
OneBadChildCall ==
  /\ PipelineCall /\ MultiChildCall /\ Len(ChildrenOf(arg)) >= 2
  /\ Cardinality({i \in 1..Len(ChildrenOf(arg)) : BadChild(ChildrenOf(arg)[i][2])}) = 1
\* the renderings of the children that are not bad, in input order
SiblingsOf(d) ==
  LET good == SelectSeq(ChildrenOf(d), LAMBDA child : ~BadChild(child[2]))
  IN [i \in 1..Len(good) |-> generate_widget(good[i][2]).r.s]
\* the name: value lines of the parent's own processed properties
OwnProperties(d) ==
  LET list == _process_properties(Fields(Row(TypeOf(d).s)), PropertiesOf(d)).list
      shown == SelectSeq(list, LAMBDA entry : entry.value # Str(<<"null">>))
  IN [i \in 1..Len(shown) |-> shown[i].name \o <<":", SP>> \o PyStr(shown[i].value)]

\* C13: in a container with several child descriptors, one bad child descriptor
\* (unknown type, missing type, malformed or null properties) degrades only itself to
\* a stub: every sibling is still rendered in its position, and the parent is rendered
\* through its normal pipeline with its own properties, not as a stub.
C13_BadChildConfined ==
  OneBadChildCall =>
    /\ ~ret.x
    /\ InOrder(Output, SiblingsOf(arg), 1)
    /\ \A i \in 1..Len(OwnProperties(arg)) : Occurrences(Output, OwnProperties(arg)[i]) # {}
    /\ Occurrences(Output, <<"children", ":", SP, "[">>) # {}

-----------------------------------------------------------------------------
(* Output sanitation *)

\* a call for an active widget type
KnownCall == Called /\ IsDict(arg) /\ IsStr(TypeOf(arg)) /\ Exists(TypeOf(arg).s)
\* the text the renderer of a known type produces, before any sanitation: the result
\* of the special-case renderer, or the rendered template of the pipeline
Produced(d) ==
  IF TypeOf(d) \in SpecialCased THEN generate_known(TypeOf(d), Fields(Row(TypeOf(d).s)), d)
  ELSE LET widget_type == Fields(Row(TypeOf(d).s))
           processed_props == _process_properties(widget_type, PropertiesOf(d))
           children == IF widget_type.is_container
                       THEN _process_children(Get(d, K("children"), List(<<>>)))
                       ELSE [x |-> FALSE, list |-> <<>>, v |-> {}]
       IN IF processed_props.x \/ children.x THEN Raise({})
          ELSE _render_template(_get_template(widget_type, d), widget_type,
                                processed_props.list, children.list)

\* C14: on every path through generate_widget for a known widget type, the generic
\* template pipeline and each special-case renderer (Text, Icon, IconButton and
\* FloatingActionButton, CarouselSlider, Badge), the text returned is the produced
\* text after _validate_and_clean_output.
C14_SanitationApplied ==
  KnownCall /\ ~Produced(_decode_html_deeply(arg)).x =>
    /\ ~ret.x
    /\ Output = _validate_and_clean_output(Produced(_decode_html_deeply(arg)).r.s)

-----------------------------------------------------------------------------
(* Malformed template bodies *)

\* a pipeline call whose selected template body does not compile, while its properties
\* and children are processed without error
MalformedCall ==
  /\ PipelineCall
  /\ _get_template(Fields(Row(TypeOf(arg).s)), _decode_html_deeply(arg)).form = "malformed"
  /\ ~Produced(_decode_html_deeply(arg)).x
\* the rendering of a descriptor with the default template of its kind
WithDefaultTemplate(d) ==
  LET widget_type == Fields(Row(TypeOf(d).s))
  IN _validate_and_clean_output(
       _render_template(_get_default_template(widget_type), widget_type,
                        _process_properties(widget_type, PropertiesOf(d)).list,
                        IF widget_type.is_container
                        THEN _process_children(Get(d, K("children"), List(<<>>))).list
                        ELSE <<>>).r.s)

\* C15: if rendering the selected template body fails (malformed template), the widget
\* is rendered with the structurally derived default template for its kind, so that its
\* processed properties and resolved children still appear in the output.
C15_MalformedUsesDefault ==
  MalformedCall => ~ret.x /\ Output = WithDefaultTemplate(_decode_html_deeply(arg))

-----------------------------------------------------------------------------
(* IconButton and FloatingActionButton *)

ButtonCall ==
  /\ Called /\ IsDict(arg) /\ TypeOf(arg) \in {W("IconButton"), W("FloatingActionButton")}
  /\ IsDict(PropertiesOf(arg))
\* the callback the output must hold: the one supplied, or the no-op when the
\* properties hold no onPressed or a null one
Callback(props) ==
  IF Get(props, K("onPressed"), None) = None THEN <<"(", ")", SP, "{", "}">>
  ELSE PyStr(Get(props, K("onPressed"), None))
\* the key of the sub-descriptor: icon for IconButton, child for FloatingActionButton
SubKey(d) == IF TypeOf(d) = W("IconButton") THEN K("icon") ELSE K("child")
SubDescriptor(d) == Get(PropertiesOf(d), SubKey(d), None)

\* C16: for every IconButton and FloatingActionButton descriptor, the output of
\* generate_widget contains an onPressed: argument, the supplied callback when present
\* and otherwise the no-op () {}, and a map-valued icon/child sub-descriptor is
\* rendered by a recursive generate_widget call.
C16_ButtonCallback ==
  ButtonCall =>
    LET d == _decode_html_deeply(arg) IN
    /\ ~ret.x
    /\ Occurrences(Output, <<"onPressed", ":", SP>> \o Callback(PropertiesOf(d))) # {}
    /\ IsDict(SubDescriptor(d)) =>
         /\ ~generate_widget(SubDescriptor(d)).x
         /\ Occurrences(Output, SubKey(d) \o <<":", SP>>
                                \o generate_widget(SubDescriptor(d)).r.s) # {}

-----------------------------------------------------------------------------
(* CarouselSlider options *)

\* a CarouselSlider call with a properties map whose items are rendered without error
CarouselCall ==
  /\ Called /\ IsDict(arg) /\ TypeOf(arg) = W("CarouselSlider") /\ IsDict(PropertiesOf(arg))
  /\ ~_generate_carousel_slider(_decode_html_deeply(arg)).x
OptionsOf(d) == Get(PropertiesOf(d), K("options"), EmptyDict)
HeightSupplied(d) == IsDict(OptionsOf(d)) /\ Has(OptionsOf(d), K("height"))
DefaultHeight == <<"height", ":", SP, "200", ".", "0">>
\* the text of the rendered options: from CarouselOptions( up to the items argument
OptionsText(out) ==
  SubSeq(out, CHOOSE i \in Occurrences(out, <<"CarouselOptions", "(">>) : TRUE,
         CHOOSE i \in Occurrences(out, <<",", NL, SP, SP, "items", ":">>) : TRUE)

\* C17: for a CarouselSlider descriptor, the default extent height: 200.0 is added to
\* the rendered options if and only if no height option was supplied; when a height is
\* supplied the options contain exactly that one height and no default, regardless of
\* the other options' values.
C17_DefaultHeightIffNone ==
  CarouselCall =>
    LET d == _decode_html_deeply(arg)
        options == OptionsText(Output)
    IN /\ ~ret.x
       /\ Cardinality(Occurrences(options, <<"height", ":", SP>>)) = 1
       /\ IF HeightSupplied(d)
          THEN Occurrences(options, <<"height", ":", SP>>
                                    \o dot0(Get(OptionsOf(d), K("height"), None))) # {}
          ELSE Occurrences(options, DefaultHeight) # {}

-----------------------------------------------------------------------------
(* Properties of validate_component *)

Validated == op = "validate_component"
Posted == op = "generate_widget_code"
\* the type field is missing, or a required property of the type has neither a value
\* in the descriptor nor a default
Unresolvable(d) ==
  \/ ~IsDict(d) \/ ~Truthy(TypeOf(d))
  \/ /\ IsStr(TypeOf(d)) /\ ExistsAny(TypeOf(d).s)
     /\ \E i \in 1..Len(DeclaredOf(d)) :
          /\ DeclaredOf(d)[i].is_required /\ DeclaredOf(d)[i].default_value = E
          /\ ~(IsDict(PropertiesOf(d)) /\ Explicit(DeclaredOf(d)[i], PropertiesOf(d)))
NeverRaises == Validated => ~ret.x
InvalidExactly == Validated /\ ~ret.x => (~ret.valid <=> Unresolvable(arg))
NonBlocking ==
  Posted /\ ~validate_component(arg).x /\ ~validate_component(arg).valid /\ ~generate_widget(arg).x
    => ret.status = 200 /\ ret.code = generate_widget(arg).r

\* C18: validate_component is an advisory, non-blocking pre-check: it never raises, it
\* reports valid = false exactly when the type field is missing or a required property
\* is left fully unresolvable (no value and no default), and a failed validation never
\* prevents generate_widget from producing output for the same descriptor, the
\* generate_widget_code endpoint included.
C18_ValidateAdvisory == NeverRaises /\ InvalidExactly /\ NonBlocking

-----------------------------------------------------------------------------
(* Properties of generate_imports *)

Imported == op = "generate_imports" /\ \A i \in 1..Len(arg) : IsDict(arg[i])
\* the widget types whose definitions a fresh generator fetches to render the
\* components, at the top level and in their nested descriptors
RenderedTypes(components) ==
  UNION {generate_widget(components[i]).v : i \in 1..Len(components)}
\* the packages the rendered types reference
ReferencedPackages(components) ==
  {PackageOf(t) : t \in {t \in RenderedTypes(components) : PackageOf(t) # E}}

\* C19: the generated import list is the fixed base material import plus exactly one
\* import per distinct external package referenced by any widget type that is rendered
\* anywhere in the component trees (top-level or nested child), with no duplicates and
\* no import for a package that no rendered widget type references.
C19_ImportsOfRendered ==
  Imported =>
    /\ ~ret.x
    /\ \E i \in 1..Len(ret.list) : ret.list[i] = BaseImport
    /\ \A i, j \in 1..Len(ret.list) : ret.list[i] = ret.list[j] => i = j
    /\ \A p \in ReferencedPackages(arg) :
         Cardinality({i \in 1..Len(ret.list) : In(p[1], ret.list[i])}) = 1
    /\ \A i \in 1..Len(ret.list) :
         ret.list[i] # BaseImport => \E p \in ReferencedPackages(arg) : In(p[1], ret.list[i])

-----------------------------------------------------------------------------
(* Properties of the widget-type cache under concurrent renders *)

\* every entry is the active type definition of its name that the store returns; a
\* name the store does not find has no entry
CacheSound ==
  \A n \in DOMAIN widget_cache :
    Exists(n) /\ Row(n).is_active /\ widget_cache[n] = Fields(Row(n))
\* the names the renders of the threads have finished looking up
LookedUp ==
  UNION {{Lookups(arg[t])[i] : i \in 1..(ret[t].i - 1)} : t \in Threads}
\* the cache a single render leaves that looks the names up once each
SingleFetch(names) == [n \in {n \in names : Exists(n)} |-> Fields(Row(n))]
\* once a lookup is finished the cache holds what a single fetch of the name leaves,
\* and when every render is done the cache is the one single fetches leave
SameAsSingleFetch ==
  /\ \A n \in LookedUp : Exists(n) => n \in DOMAIN widget_cache
  /\ (\A t \in Threads : ret[t].pc = "done") => widget_cache = SingleFetch(LookedUp)
NoKeyError == \A t \in Threads : ret[t].pc # "KeyError"
\* a step neither changes nor removes an entry
EntriesKept ==
  \A n \in DOMAIN widget_cache : n \in DOMAIN widget_cache' /\ widget_cache'[n] = widget_cache[n]

\* C20: the widget-type lookup cache is safe under any interleaving of concurrent
\* renders sharing one generator: every cache entry for name n is the active type
\* definition named n that the schema store returned, an entry once cached is never
\* changed or removed, a type that was not found is never cached, and concurrent misses
\* for the same name may fetch redundantly but leave the cache in the same state as a
\* single fetch.
C20_CacheSafe ==
  /\ [](CacheSound /\ SameAsSingleFetch /\ NoKeyError)
  /\ [][EntriesKept]_vars
\* two renders have missed the same name, fetched it each and written it each, and
\* both are done; one of them has looked up a name that is not found
C20_RedundantFetches ==
  /\ \A t \in Threads : ret[t].pc = "done"
  /\ \E t, u \in Threads : t # u /\ ret[t].stored \cap ret[u].stored # {}
  /\ \E n \in LookedUp : ~Exists(n)

-----------------------------------------------------------------------------
(* The string transformer *)

\* the quoted, escaped string literal of a text: backslashes and single quotes escaped
Quoted(s) == <<SQ>> \o Replace(Replace(s, "\\", <<"\\", "\\">>), SQ, <<"\\", SQ>>) \o <<SQ>>
\* the literals of the null raw value: the empty string, or null
NullLiterals == {<<SQ, SQ>>, <<DQ, DQ>>, <<"null">>}
\* the declared properties of the called type that get_handler gives the string
\* transformer and that the call gives a string value
StringGiven ==
  IF PipelineCall
  THEN {i \in 1..Len(DeclaredOf(arg)) :
          /\ DeclaredOf(arg)[i].property_type = "string"
          /\ HandlerOf(DeclaredOf(arg)[i]).handler.h = "string"
          /\ Explicit(DeclaredOf(arg)[i], PropertiesOf(arg))
          /\ IsStr(GivenValue(DeclaredOf(arg)[i]))}
  ELSE {}
\* the transformer on a string and on null
TransformsToLiteral(value) ==
  /\ ~transform(Handler("string"), value).x
  /\ transform(Handler("string"), value).r = Str(Quoted(value.s))
  /\ ~transform(Handler("string"), None).x
  /\ IsStr(transform(Handler("string"), None).r)
  /\ transform(Handler("string"), None).r.s \in NullLiterals

\* C21: the string transformer renders a string raw value s as a quoted, escaped string
\* literal of s, and a null raw value as an empty-string literal or the null literal;
\* so a declared string-typed property with value s appears in the generated widget as
\* a quoted literal of s, never as null and never omitted.
C21_StringQuoted ==
  \A i \in StringGiven :
    /\ TransformsToLiteral(GivenValue(DeclaredOf(arg)[i]))
    /\ Returns
    /\ RenderedValues(Output, DeclaredOf(arg)[i].name) # {}
    /\ \A text \in RenderedValues(Output, DeclaredOf(arg)[i].name) :
         StartsWith(text, Quoted(GivenValue(DeclaredOf(arg)[i]).s))

-----------------------------------------------------------------------------
(* Properties of the page composition *)

PagesGenerated == op = "_generate_pages"
\* the rows of a page that have no parent
TopLevel(page_name) ==
  SelectSeq(arg, LAMBDA c : c.page_name = page_name /\ c.parent_component = 0)
OrderOf(id) == arg[CHOOSE i \in 1..Len(arg) : arg[i].id = id].order
\* the components a page rendered are its top-level rows, each once, in ascending order
TopLevelOnce(page) ==
  /\ Len(page.components) = Len(TopLevel(page.page_name))
  /\ \A i \in 1..Len(TopLevel(page.page_name)) :
       \E k \in 1..Len(page.components) : page.components[k] = TopLevel(page.page_name)[i].id
  /\ \A k, l \in 1..Len(page.components) :
       k < l => OrderOf(page.components[k]) <= OrderOf(page.components[l])

\* C22: when a page is composed, generate_widget is invoked exactly once per top-level
\* component of that page: a component that has a parent component is rendered only
\* inside its parent's children, never a second time as a top-level widget of the
\* page; and the top-level results are concatenated in ascending order.
C22_OncePerTopLevel ==
  PagesGenerated =>
    \A i \in 1..Len(ret.pages) :
      /\ TopLevelOnce(ret.pages[i])
      /\ Len(ret.pages[i].generated) = Len(TopLevel(ret.pages[i].page_name))
      /\ Len(ret.pages[i].widgets) = Len(TopLevel(ret.pages[i].page_name))
      /\ InOrder(ret.pages[i].code, ret.pages[i].widgets, 1)

-----------------------------------------------------------------------------
(* The default templates *)

Decoded0 == _decode_html_deeply(arg)
\* the processed properties and the resolved children of the call
ProcessedOf(d) == _process_properties(Fields(Row(TypeOf(d).s)), PropertiesOf(d))
ResolvedOf(d) == _process_children(Get(d, K("children"), List(<<>>)))
\* a call rendered through the template pipeline for which no stored template is
\* selected, its properties and children being processed without an exception
DefaultCall ==
  /\ PipelineCall
  /\ _get_template(Fields(Row(TypeOf(arg).s)), Decoded0)
       = _get_default_template(Fields(Row(TypeOf(arg).s)))
  /\ ~ProcessedOf(Decoded0).x
  /\ ~ResolvedOf(Decoded0).x
\* the positions of the assignments of the processed properties that are not "null"
AssignmentsAt(out, processed) ==
  {i \in 1..Len(out) :
     \E n \in 1..Len(processed) :
       /\ processed[n].value # Str(<<"null">>)
       /\ i \in Occurrences(out, processed[n].name \o <<":", SP>>)}
EveryAssigned(out, processed) ==
  \A n \in 1..Len(processed) :
    processed[n].value # Str(<<"null">>) =>
      Occurrences(out, processed[n].name \o <<":", SP>>) # {}
ChildrenAt(out) == Occurrences(out, <<"children", ":", SP, "[">>)
ChildAt(out) == Occurrences(out, <<"child", ":", SP>>)
\* the shape of the output for the kind of the type
DefaultShape(widget_type, out, processed, children) ==
  /\ StartsWith(out, widget_type.dart_class_name \o <<"(">>)
  /\ EveryAssigned(out, processed)
  /\ IF widget_type.is_container /\ widget_type.can_have_multiple_children
     THEN children # <<>> =>
            /\ \E i \in ChildrenAt(out) :
                 /\ InOrder(out, children, i)
                 /\ \A j \in AssignmentsAt(out, processed) : j < i
            /\ ChildAt(out) = {}
     ELSE IF widget_type.is_container
     THEN children # <<>> =>
            /\ \E i \in ChildAt(out) :
                 /\ ChildAt(out) = {i}
                 /\ StartsWith(SubSeq(out, i + 3, Len(out)), children[1])
                 /\ \A j \in AssignmentsAt(out, processed) : j < i
            /\ Cardinality(Occurrences(out, children[1])) = 1
            /\ \A n \in 2..Len(children) :
                 children[n] # children[1] => Occurrences(out, children[n]) = {}
            /\ ChildrenAt(out) = {}
     ELSE /\ ChildAt(out) = {} /\ ChildrenAt(out) = {}
          /\ \A n \in 1..Len(children) : Occurrences(out, children[n]) = {}

\* C25: when no stored template is selected, the output shape depends only on
\* is_container and can_have_multiple_children: a multi-child container emits its
\* property assignments then a children: [...] block with all resolved children; a
\* single-child container emits its property assignments then one child: assignment
\* holding the first resolved child only; a leaf emits property assignments only and
\* never a child or children section, even when the descriptor supplies children.
C25_DefaultShape ==
  DefaultCall =>
    /\ Returns
    /\ DefaultShape(Row(TypeOf(arg).s), Output, ProcessedOf(Decoded0).list,
                    ResolvedOf(Decoded0).list)

\* a single-child container given two different children: only the first is emitted
C25_FirstChildOnly ==
  /\ DefaultCall /\ Returns
  /\ Row(TypeOf(arg).s).is_container /\ ~Row(TypeOf(arg).s).can_have_multiple_children
  /\ Len(ResolvedOf(Decoded0).list) = 2
  /\ ResolvedOf(Decoded0).list[1] # ResolvedOf(Decoded0).list[2]
  /\ ChildAt(Output) # {}
  /\ Occurrences(Output, ResolvedOf(Decoded0).list[2]) = {}

-----------------------------------------------------------------------------
(* Properties of build_apk *)

\* the call has returned
BuildReturned == ret.pc = "return"
\* a flutter build apk command exited with code 0
Succeeded(build_result) == build_result.x = "" /\ build_result.returncode = 0
\* a command failed with an error the code classifies as a network error
FailedOnNetwork(build_result) ==
  /\ build_result.x = ""
  /\ build_result.returncode # 0
  /\ In("503", build_result.stderr) \/ In("IOException", build_result.stderr)
\* this step runs flutter build apk
RunsBuild == Len(ret'.commands) = Len(ret.commands) + 1
\* a further attempt follows an attempt that failed on the network, and nothing else
RetryOnlyAfterNetworkFailure ==
  /\ Len(ret'.commands) \in {Len(ret.commands), Len(ret.commands) + 1}
  /\ SubSeq(ret'.commands, 1, Len(ret.commands)) = ret.commands
  /\ RunsBuild /\ ret.commands # <<>> => FailedOnNetwork(ret.commands[Len(ret.commands)])
\* the loop is left by the first success and by a failure that is not a network error
LoopEnds ==
  RunsBuild /\ ~FailedOnNetwork(ret'.commands[Len(ret'.commands)]) => ret'.pc # "build"
\* the shape of the value the call returns
ResultShape ==
  BuildReturned =>
    /\ ret.result.success => \E i \in 1..Len(ret.commands) : Succeeded(ret.commands[i])
    /\ ret.result.success => ret.result.apk_path # None /\ ret.result.error = None
    /\ ~ret.result.success =>
         /\ ret.result.apk_path = None
         /\ ret.result.error.k = "str" /\ ret.result.error.s # E

\* C28: in build_apk the flutter build apk command is run at most 3 times per call; a
\* further attempt is made only after an attempt failed with a network-classified error
\* (stderr contains "503" or "IOException"); the first successful attempt ends the
\* loop, a non-network failure ends it without retry, and the call returns success only
\* if some attempt exited with code 0, success implying an artifact path and no error,
\* failure implying no artifact path and a non-empty error.
C28_BoundedRetries ==
  /\ [](Len(ret.commands) <= 3 /\ ResultShape)
  /\ [][RetryOnlyAfterNetworkFailure /\ LoopEnds]_vars
\* two attempts failed on the network, the third succeeded and the call returned success
C28_ThirdAttemptSucceeded ==
  /\ BuildReturned /\ ret.result.success
  /\ Len(ret.commands) = 3
  /\ FailedOnNetwork(ret.commands[1]) /\ FailedOnNetwork(ret.commands[2])
  /\ Succeeded(ret.commands[3])

-----------------------------------------------------------------------------
(* Properties of the build requests *)

\* the rows of a project that are pending or building
ActiveOf(project) == active_builds(apk_builds, project)
\* a request that is about to create a row and start a thread
AboutToCreate(r) == ret[r].pc = "create"

\* C29: for each project, at most one APKBuild record is in an active status (pending
\* or building) at any time, under any interleaving of concurrent build_apk requests
\* for that project: a request that arrives while a build is active creates no new
\* build record and starts no new background thread.
C29_OneActiveBuild ==
  /\ \A project \in ProjectNames : Cardinality(ActiveOf(project)) <= 1
  /\ \A r \in Requests : AboutToCreate(r) => ActiveOf(arg[r]) = {}

-----------------------------------------------------------------------------
(* Properties of the APKBuild records *)

Terminal == {"completed", "failed"}
\* the ids the table can hold
BuildIds == 1..MaxRequests
\* the request whose thread works on a row
ThreadOf(id) == CHOOSE r \in Requests : ret[r].id = id
\* the statuses a step may take a row through; a new row is pending
StatusSteps ==
  /\ Len(apk_builds') >= Len(apk_builds)
  /\ \A id \in 1..Len(apk_builds') :
       IF id > Len(apk_builds) THEN apk_builds'[id].status = "pending"
       ELSE \/ apk_builds'[id].status = apk_builds[id].status
            \/ apk_builds[id].status = "pending" /\ apk_builds'[id].status = "building"
            \/ apk_builds[id].status = "building" /\ apk_builds'[id].status \in Terminal
\* completed_at is set exactly in the terminal statuses
CompletedAtSet ==
  \A id \in 1..Len(apk_builds) :
    apk_builds[id].completed_at # None <=> apk_builds[id].status \in Terminal
\* the completed rows record the artifact path of a successful result
CompletedBySuccess ==
  \A id \in 1..Len(apk_builds) :
    apk_builds[id].status = "completed" =>
      /\ ret[ThreadOf(id)].frame # None
      /\ ret[ThreadOf(id)].frame.pc = "return"
      /\ ret[ThreadOf(id)].frame.result.success
      /\ apk_builds[id].apk_file_path # E
      /\ Str(apk_builds[id].apk_file_path) = ret[ThreadOf(id)].frame.result.apk_path
\* a build whose thread has been started ends: the row is created with the start of
\* the thread
BuildEnds(id) ==
  (Len(apk_builds) >= id)
    ~> (Len(apk_builds) >= id /\ apk_builds[id].status \in Terminal)

\* C30: every APKBuild record follows the status sequence pending, building, then
\* completed or failed: once the background build starts it eventually reaches
\* completed or failed (any exception in the build maps to failed), a terminal status
\* never changes again, completed_at is set exactly when a terminal status is reached,
\* and status completed implies the build result reported success with an artifact path
\* recorded.
C30_StatusSequence ==
  /\ [][StatusSteps]_vars
  /\ [](CompletedAtSet /\ CompletedBySuccess)
  /\ \A id \in BuildIds : BuildEnds(id)
\* one build has completed with its artifact and another has failed on an exception
\* that left the build
C30_CompletedAndFailed ==
  /\ Len(apk_builds) = 2
  /\ apk_builds[1].status = "completed" /\ apk_builds[1].apk_file_path # E
  /\ apk_builds[2].status = "failed" /\ apk_builds[2].error_message = <<"OSError">>

====
